---- MODULE Spec2Model ----
(***************************************************************************)
(* A model of the go-dcp client: the vBucket partition function            *)
(* (ChunkSlice), the checkpoint manager (Save / Load), the cluster         *)
(* client's stream open with rollback recovery (OpenStream) and the        *)
(* top-level lifecycle (Start / Close).                                    *)
(*                                                                         *)
(* Each part has its own specification over the shared variables:          *)
(*   SpecChunk      ChunkSlice applied to bounded inputs                   *)
(*   SpecCheckpoint Load, Save and the DCP events on the offset ledger     *)
(*   SpecOpen       one OpenStream call and the server's completions       *)
(*   SpecLifecycle  Start, the shutdown signals and Close                  *)
(***************************************************************************)
EXTENDS Integers, Sequences, FiniteSets, TLC

(***************************************************************************)
(* Bounds of the model.                                                    *)
(***************************************************************************)
MaxVBuckets == 12
MaxMembers == 5
MaxVbId == 1        \* the checkpoint manager handles vBuckets 0..MaxVbId
MaxSeqNo == 1       \* sequence numbers of the server range over 0..MaxSeqNo
NumNodes == 2       \* servers queried by GetVBucketSeqNos
MaxPublishers == 2  \* tasks publishing MembershipChanged events
MaxEvents == 4      \* MembershipChanged events published
MaxEndpoints == 2   \* endpoints one service reports in a ping result
MaxTicks == 3       \* ticks of the checkpoint scheduler
MaxStops == 2       \* calls of StopSchedule()

VARIABLES
    slice,      \* ChunkSlice: the input slice of vBucket ids
    chunks,     \* ChunkSlice: the number of chunks (members)
    chunkPc,    \* "input" before the call, "done" after it
    result,     \* ChunkSlice: [panic, chunks] returned by the call
    \* ---- checkpoint manager and offset ledger
    ckPc,           \* "off" | "boot" | "loaded" | "running" | "panic"
    autoReset,      \* config.Checkpoint.AutoReset
    bucketUUID,     \* checkpoint.bucketUUID, the live bucket's UUID
    serverSeqNo,    \* the server's current seqNo of every vBucket
    metadataDocs,   \* the documents the metadata backend holds
    offsets,        \* stream.offsets, the ledger
    dirtyOffsets,   \* stream.dirtyOffsets
    anyDirtyOffset, \* stream.anyDirtyOffset
    offsetsLock,    \* holder of the ledger lock (LockOffsets), or "none"
    saveLock,       \* holder of checkpoint.saveLock, or "none"
    savePc,         \* position of every caller of Save()
    saveLocal,      \* locals of every caller's Save()
    lastReturn,     \* outcome of the Save() that returned last
    loadInfo,       \* what the last Load() went through
    lastMetaErr,    \* result of the last metadata.Save of this process
    lastSaved,      \* ledger snapshot of the last successful Save()
    \* ---- cluster client, OpenStream
    openPc,         \* position of the OpenStream call
    openVb,         \* its vbID argument
    openArgs,       \* its collectionIDs and observer, and the offset at the call
    hasCollectionsSupport,  \* dcpAgent.HasCollectionsSupport()
    agentCalls,     \* the calls of dcpAgent.OpenStream made so far
    openCh,         \* the error a completion callback sent on ch
    firstErr,       \* completion of the first open attempt
    secondErr,      \* completion of the rollback re-open
    openResult,     \* the error OpenStream returned
    observerFailoverLogs,   \* failover logs the observer was given
    openCompletions,    \* what the server completed each request with
    \* ---- dcp.Start and dcp.Close
    startPc,        \* position of Start, then of Close
    lifeConfig,     \* the config fields Start and Close read
    shutdownCh,     \* values buffered in stopCh, cancelCh, healCheckFailedCh
    closeWithCancel,    \* dcp.closeWithCancel
    arrivals,       \* the shutdown signals in the order they were sent
    honored,        \* the signal whose case the select of Start took
    pendingAtSelect,    \* the signals that were ready when the select ended
    apiSet,         \* s.api != nil
    closeLog,       \* the calls made by Close
    streamCloseArg, \* the argument Close gave to stream.Close
    readyCh,        \* values waiting in readyCh
    startLog,       \* the steps Start has made, in order
    startFault,     \* the step of Start that faults in this run, or "none"
    \* ---- the event bus and the membership listener
    subscribed,     \* "no", "yes" once the listener is registered, "removed"
    handlerLock,    \* the mutex of the transactional handler
    pubPc,          \* position of each publisher in bus.Publish
    busPublished,   \* events published so far
    delivered,      \* events handed to the listener
    spawned,        \* listener tasks started and not yet running
    rebalancing,    \* stream.Rebalance() executions in progress
    rebalanceCalls, \* stream.Rebalance() calls made so far
    \* ---- client.Ping
    pingPc,         \* position of the caller of Ping()
    pingInput,      \* what the cluster answers: submission error, result, err
    pingCb,         \* the completion callback: "none", "sending", "done"
    pingErrorCh,    \* the error the callback is sending on errorCh
    pingReturn,     \* what Ping() returned
    \* ---- the checkpoint scheduler
    schedType,      \* config.Checkpoint.Type
    schedule,       \* checkpoint.schedule: "nil" or "ticker"
    tickerOn,       \* the ticker made by the scheduler task is running
    tickerC,        \* ticks waiting in the ticker's channel (room for one)
    ticks,          \* ticks produced so far
    schedTask,      \* the scheduler task: "none", "spawned", "looping"
    startCalls,     \* StartSchedule() calls that returned
    stopCalls,      \* StopSchedule() calls that returned
    scheduledSaves, \* Save() calls started by the scheduler task
    savesAfterStop  \* those started after a StopSchedule() had returned

chunkVars == <<slice, chunks, chunkPc, result>>

ckptVars == <<ckPc, autoReset, bucketUUID, serverSeqNo, metadataDocs, offsets,
              dirtyOffsets, anyDirtyOffset, offsetsLock, saveLock, savePc,
              saveLocal, lastReturn, loadInfo, lastMetaErr, lastSaved>>

openVars == <<openPc, openVb, openArgs, hasCollectionsSupport, agentCalls,
              openCh, firstErr, secondErr, openResult, observerFailoverLogs,
              openCompletions>>

lifeVars == <<startPc, lifeConfig, shutdownCh, closeWithCancel, arrivals,
              honored, pendingAtSelect, apiSet, closeLog, streamCloseArg,
              readyCh, startLog, startFault>>

busVars == <<subscribed, handlerLock, pubPc, busPublished, delivered, spawned,
             rebalancing, rebalanceCalls>>

pingVars == <<pingPc, pingInput, pingCb, pingErrorCh, pingReturn>>

schedVars == <<schedType, schedule, tickerOn, tickerC, ticks, schedTask,
               startCalls, stopCalls, scheduledSaves, savesAfterStop>>

vars == <<chunkVars, ckptVars, openVars, lifeVars, busVars, pingVars, schedVars>>

\* what the actions of one part leave alone
notChunkVars == <<ckptVars, openVars, lifeVars, busVars, pingVars, schedVars>>
notCkptVars == <<chunkVars, openVars, lifeVars, busVars, pingVars, schedVars>>
notOpenVars == <<chunkVars, ckptVars, lifeVars, busVars, pingVars, schedVars>>
notLifeVars == <<chunkVars, ckptVars, openVars, busVars, pingVars, schedVars>>
notBusVars == <<chunkVars, ckptVars, openVars, lifeVars, pingVars, schedVars>>
notPingVars == <<chunkVars, ckptVars, openVars, lifeVars, busVars, schedVars>>
notSchedVars == <<chunkVars, ckptVars, openVars, lifeVars, busVars, pingVars>>

(***************************************************************************)
(* Helpers on sequences.                                                   *)
(***************************************************************************)
RECURSIVE Concat(_)
Concat(ss) == IF ss = <<>> THEN <<>> ELSE Head(ss) \o Concat(Tail(ss))

\* the sorted vBucket ids 0..n-1, as the engine builds them
VbIdSeq(n) == [i \in 1..n |-> i - 1]

(***************************************************************************)
(* ChunkSlice (utils.go).                                                  *)
(***************************************************************************)
\* Go's integer division truncates toward zero
GoDiv(a, b) == IF a >= 0 THEN a \div b ELSE -((-a) \div b)

maxChunkSize(len, c) == GoDiv(len - 1, c) + 1

numFullChunks_OneMore(len, c) == c - (maxChunkSize(len, c) * c - len) + 1

\* numFullChunks := chunks - (maxChunkSize*chunks - len(slice))
numFullChunks(len, c) == c - (maxChunkSize(len, c) * c - len)

IsShortChunk_Off(i, nFull) == i > nFull

\* the chunks from index numFullChunks on are one shorter
IsShortChunk(i, nFull) == i >= nFull

\* endIndex of chunk i (0-based) that starts at startIndex
endIndex(len, c, i, startIndex) ==
    IF IsShortChunk(i, numFullChunks(len, c))
    THEN startIndex + maxChunkSize(len, c) - 1
    ELSE startIndex + maxChunkSize(len, c)

\* slice[lo:hi] of Go: a run-time panic unless 0 <= lo <= hi <= len
SliceInRange(s, lo, hi) == 0 <= lo /\ lo <= hi /\ hi <= Len(s)

\* the loop of ChunkSlice from chunk i on; acc is the result built so far
RECURSIVE ChunkLoop(_, _, _, _, _)
ChunkLoop(s, c, i, startIndex, acc) ==
    IF i >= c
    THEN [panic |-> FALSE, chunks |-> acc]
    ELSE LET e == endIndex(Len(s), c, i, startIndex)
         IN  IF ~SliceInRange(s, startIndex, e)
             THEN [panic |-> TRUE, chunks |-> acc]
             ELSE ChunkLoop(s, c, i + 1, e,
                            Append(acc, SubSeq(s, startIndex + 1, e)))

ChunkSlice(s, c) == ChunkLoop(s, c, 0, 0, <<>>)

(***************************************************************************)
(* Offsets and checkpoint documents (models.Offset,                        *)
(* models.CheckpointDocument as checkpoint.Save and Load build them).      *)
(***************************************************************************)
VbIds == 0..MaxVbId

Savers == {"schedule", "commit", "close"}

Nodes == 1..NumNodes

CheckpointAutoResetTypeLatest == "latest"

\* the server on which vBucket v is active
NodeOf(v) == (v % NumNodes) + 1

\* the vbUUID at the head of the server's failover log of vBucket v
FailoverHead(v) == 10 + v

NewOffset(vbUUID, seqNo, startSeqNo, endSeqNo) ==
    [SnapshotMarker |-> [StartSeqNo |-> startSeqNo, EndSeqNo |-> endSeqNo],
     VbUUID |-> vbUUID,
     SeqNo |-> seqNo]

NoOffsets == [v \in {} |-> NewOffset(0, 0, 0, 0)]

\* a Go map[uint16]T read at a missing key gives the zero value
MapGet(m, v) == IF v \in DOMAIN m THEN m[v] ELSE 0

\* the document Save builds from one ledger offset
CheckpointDocument(offset, uuid) ==
    [Checkpoint |->
        [VbUUID |-> offset.VbUUID,
         SeqNo |-> offset.SeqNo,
         Snapshot |-> [StartSeqNo |-> offset.SnapshotMarker.StartSeqNo,
                       EndSeqNo |-> offset.SnapshotMarker.EndSeqNo]],
     BucketUUID |-> uuid]

Dump_Zeroed(offs, uuid) == [v \in DOMAIN offs |-> CheckpointDocument(NewOffset(0, 0, 0, 0), uuid)]

\* dump := map[uint16]*models.CheckpointDocument{} filled from the offsets
Dump(offs, uuid) == [v \in DOMAIN offs |-> CheckpointDocument(offs[v], uuid)]

NoDump == Dump(NoOffsets, "")

OffsetFromDoc_Swapped(doc) ==
    NewOffset(doc.Checkpoint.VbUUID, doc.Checkpoint.SeqNo,
              doc.Checkpoint.Snapshot.EndSeqNo,
              doc.Checkpoint.Snapshot.StartSeqNo)

\* the offset Load rebuilds verbatim from a persisted document
OffsetFromDoc(doc) ==
    NewOffset(doc.Checkpoint.VbUUID, doc.Checkpoint.SeqNo,
              doc.Checkpoint.Snapshot.StartSeqNo,
              doc.Checkpoint.Snapshot.EndSeqNo)

AutoResetOffset_EndZero(doc, currentSeqNo) ==
    NewOffset(doc.Checkpoint.VbUUID, currentSeqNo, currentSeqNo, 0)

\* the offset Load builds on the auto-reset path
AutoResetOffset(doc, currentSeqNo) ==
    NewOffset(doc.Checkpoint.VbUUID, currentSeqNo, currentSeqNo, currentSeqNo)

\* the auto-reset path marks a vBucket dirty when its seqNo is not 0
AutoResetDirty(currentSeqNo) == currentSeqNo # 0

(***************************************************************************)
(* The metadata backend (metadata.Metadata): its implementations are not   *)
(* part of the sources at hand; modelled from the interface contract.      *)
(***************************************************************************)
EmptyCheckpointDocument(uuid) == CheckpointDocument(NewOffset(0, 0, 0, 0), uuid)

\* a stored document counts only when it carries the live bucket's UUID
DocPresent(docs, v, uuid) == v \in DOMAIN docs /\ docs[v].BucketUUID = uuid

MetadataLoad(docs, vbs, uuid) ==
    [dump |-> [v \in vbs |-> IF DocPresent(docs, v, uuid)
                             THEN docs[v]
                             ELSE EmptyCheckpointDocument(uuid)],
     exist |-> \E v \in vbs : DocPresent(docs, v, uuid)]

\* documents left behind by a bucket of the same name that was since recreated
StaleDocs == [v \in VbIds |-> CheckpointDocument(NewOffset(FailoverHead(v), 1, 0, 1),
                                                  "bucket-old")]

\* a save writes the documents of writeSet (all of them, or the dirty ones)
MetadataSave(docs, dump, writeSet) ==
    [v \in (DOMAIN docs) \cup writeSet |->
        IF v \in writeSet THEN dump[v] ELSE docs[v]]

(***************************************************************************)
(* client.GetVBucketSeqNos: one query per server; the callback stores the  *)
(* entries it is given and ignores its error argument.                     *)
(***************************************************************************)
NodeOutcomes == {"ok", "callback_error", "submit_error"}

\* the entries the callback of server i receives
NodeEntries(server, i, outcome) ==
    IF outcome[i] = "ok" THEN {v \in VbIds : NodeOf(v) = i} ELSE {}

RECURSIVE SeqNosLoop(_, _, _, _)
SeqNosLoop(server, outcome, i, seqNos) ==
    IF i > NumNodes
    THEN [err |-> FALSE, seqNos |-> seqNos]
    ELSE IF outcome[i] = "submit_error"
         THEN [err |-> TRUE, seqNos |-> [v \in {} |-> 0]]
         ELSE LET en == NodeEntries(server, i, outcome)
              IN  SeqNosLoop(server, outcome, i + 1,
                             [v \in (DOMAIN seqNos) \cup en |->
                                 IF v \in en THEN server[v] ELSE seqNos[v]])

GetVBucketSeqNos(server, outcome) ==
    SeqNosLoop(server, outcome, 1, [v \in {} |-> 0])

(***************************************************************************)
(* checkpoint.Load                                                         *)
(***************************************************************************)
IsAutoReset(exist, reset) == ~exist /\ reset = CheckpointAutoResetTypeLatest

LoadOffsets(loaded, reset, seqNoMap) ==
    IF IsAutoReset(loaded.exist, reset)
    THEN [offsets |-> [v \in DOMAIN loaded.dump |->
                          AutoResetOffset(loaded.dump[v], MapGet(seqNoMap, v))],
          dirtyOffsets |-> [v \in DOMAIN loaded.dump |->
                               AutoResetDirty(MapGet(seqNoMap, v))],
          anyDirtyOffset |-> \E v \in DOMAIN loaded.dump :
                               AutoResetDirty(MapGet(seqNoMap, v)),
          path |-> "autoReset"]
    ELSE [offsets |-> [v \in DOMAIN loaded.dump |-> OffsetFromDoc(loaded.dump[v])],
          dirtyOffsets |-> [v \in DOMAIN loaded.dump |-> FALSE],
          anyDirtyOffset |-> FALSE,
          path |-> "verbatim"]

NoLoad == [path |-> "none", exist |-> FALSE, seqNoMap |-> [v \in {} |-> 0]]

ZeroLedger == [v \in VbIds |-> NewOffset(0, 0, 0, 0)]

NoSaveLocal ==
    [offsets |-> NoOffsets, dirtyOffsets |-> [v \in {} |-> FALSE],
     anyDirtyOffset |-> FALSE, dump |-> NoDump,
     calls |-> 0]             \* calls of metadata.Save made by this Save()

NoReturn ==
    [outcome |-> "none",         \* "skipped" | "nil" | "error"
     anyDirtyOffset |-> FALSE,   \* the anyDirty flag that Save() saw
     sinceSave |-> FALSE,        \* the ledger was as the last successful save left it
     calls |-> 0]                \* calls of metadata.Save made by that Save()

NoLastSaved == [valid |-> FALSE, offsets |-> ZeroLedger, bucketUUID |-> ""]

Load ==
    /\ UNCHANGED notCkptVars
    /\ ckPc = "boot"
    /\ \E metaErr \in BOOLEAN, outcome \in [Nodes -> NodeOutcomes] :
          LET loaded == MetadataLoad(metadataDocs, VbIds, bucketUUID)
              seqRes == GetVBucketSeqNos(serverSeqNo, outcome)
              r == LoadOffsets(loaded, autoReset, seqRes.seqNos)
          IN  IF metaErr \/ (IsAutoReset(loaded.exist, autoReset) /\ seqRes.err)
              THEN /\ ckPc' = "panic"
                   /\ UNCHANGED <<offsets, dirtyOffsets, anyDirtyOffset, loadInfo>>
              ELSE /\ ckPc' = "loaded"
                   /\ offsets' = r.offsets
                   /\ dirtyOffsets' = r.dirtyOffsets
                   /\ anyDirtyOffset' = r.anyDirtyOffset
                   /\ loadInfo' = [path |-> r.path, exist |-> loaded.exist,
                                   seqNoMap |-> IF r.path = "autoReset"
                                                THEN seqRes.seqNos
                                                ELSE NoLoad.seqNoMap]
    /\ UNCHANGED <<autoReset, bucketUUID, serverSeqNo, metadataDocs, offsetsLock,
                   saveLock, savePc, saveLocal, lastReturn, lastMetaErr, lastSaved>>

\* stream.Open goes on after Load: the streams are opened, events may flow
OpenStreams ==
    /\ UNCHANGED notCkptVars
    /\ ckPc = "loaded"
    /\ ckPc' = "running"
    /\ loadInfo' = NoLoad
    /\ UNCHANGED <<autoReset, bucketUUID, serverSeqNo, metadataDocs, offsets,
                   dirtyOffsets, anyDirtyOffset, offsetsLock, saveLock, savePc,
                   saveLocal, lastReturn, lastMetaErr, lastSaved>>

(***************************************************************************)
(* The offset ledger of the stream engine (stream.LockOffsets, GetOffsets, *)
(* UnmarkDirtyOffsets and the observer's updates): not part of the sources *)
(* at hand; modelled from the ledger contract.                             *)
(***************************************************************************)
UnmarkedDirtyOffsets == [v \in VbIds |-> FALSE]

SetOffset(v, offset) ==
    /\ offsets' = [offsets EXCEPT ![v] = offset]
    /\ dirtyOffsets' = [dirtyOffsets EXCEPT ![v] = TRUE]
    /\ anyDirtyOffset' = TRUE

\* a snapshot marker of the server opens the window (seqNo, server seqNo]
SnapshotMarker(v) ==
    /\ UNCHANGED notCkptVars
    /\ ckPc = "running"
    /\ offsetsLock = "none"
    /\ offsets[v].SeqNo = offsets[v].SnapshotMarker.EndSeqNo
    /\ offsets[v].SeqNo < serverSeqNo[v]
    /\ SetOffset(v, NewOffset(offsets[v].VbUUID, offsets[v].SeqNo,
                              offsets[v].SeqNo, serverSeqNo[v]))
    /\ UNCHANGED <<ckPc, autoReset, bucketUUID, serverSeqNo, metadataDocs,
                   offsetsLock, saveLock, savePc, saveLocal, lastReturn, loadInfo,
                   lastMetaErr, lastSaved>>

\* a mutation, deletion or expiration: the listener returns, seqNo advances
Mutation(v) ==
    /\ UNCHANGED notCkptVars
    /\ ckPc = "running"
    /\ offsetsLock = "none"
    /\ offsets[v].SeqNo < offsets[v].SnapshotMarker.EndSeqNo
    /\ SetOffset(v, NewOffset(FailoverHead(v), offsets[v].SeqNo + 1,
                              offsets[v].SnapshotMarker.StartSeqNo,
                              offsets[v].SnapshotMarker.EndSeqNo))
    /\ UNCHANGED <<ckPc, autoReset, bucketUUID, serverSeqNo, metadataDocs,
                   offsetsLock, saveLock, savePc, saveLocal, lastReturn, loadInfo,
                   lastMetaErr, lastSaved>>

(***************************************************************************)
(* checkpoint.Save, one action per blocking step of a caller t.            *)
(***************************************************************************)
CanLockOffsets_Always(holder) == TRUE

\* s.stream.LockOffsets() waits while another task holds the ledger lock
CanLockOffsets(holder) == holder = "none"

\* s.stream.LockOffsets()
SaveLockOffsets(t) ==
    /\ UNCHANGED notCkptVars
    /\ ckPc = "running"
    /\ savePc[t] = "idle"
    /\ CanLockOffsets(offsetsLock)
    /\ offsetsLock' = t
    /\ savePc' = [savePc EXCEPT ![t] = "locked"]
    /\ saveLocal' = [saveLocal EXCEPT ![t] = NoSaveLocal]
    /\ UNCHANGED <<ckPc, autoReset, bucketUUID, serverSeqNo, metadataDocs,
                   offsets, dirtyOffsets, anyDirtyOffset, saveLock, lastReturn,
                   loadInfo, lastMetaErr, lastSaved>>

NoNeedToSave_Never(anyDirty) == FALSE

\* if !anyDirtyOffset { return }
NoNeedToSave(anyDirty) == ~anyDirty

\* no offset of the ledger changed since the last successful Save()
UnchangedSinceSave ==
    lastMetaErr = "nil" /\ lastSaved.valid /\ offsets = lastSaved.offsets

OffsetsLockWhileSaving_Released(t) == "none"

\* defer s.stream.UnlockOffsets(): the ledger lock is held until Save returns
OffsetsLockWhileSaving(t) == t

\* GetOffsets, then the early return (with the deferred UnlockOffsets)
SaveGetOffsets(t) ==
    /\ UNCHANGED notCkptVars
    /\ savePc[t] = "locked"
    /\ IF NoNeedToSave(anyDirtyOffset)
       THEN /\ savePc' = [savePc EXCEPT ![t] = "idle"]
            /\ saveLocal' = [saveLocal EXCEPT ![t] = NoSaveLocal]
            /\ lastReturn' = [outcome |-> "skipped",
                              anyDirtyOffset |-> anyDirtyOffset,
                              sinceSave |-> UnchangedSinceSave,
                              calls |-> saveLocal[t].calls]
            /\ offsetsLock' = "none"
       ELSE /\ savePc' = [savePc EXCEPT ![t] = "wantSaveLock"]
            /\ saveLocal' = [saveLocal EXCEPT
                                ![t].offsets = offsets,
                                ![t].dirtyOffsets = dirtyOffsets,
                                ![t].anyDirtyOffset = anyDirtyOffset]
            /\ offsetsLock' = OffsetsLockWhileSaving(t)
            /\ UNCHANGED lastReturn
    /\ UNCHANGED <<ckPc, autoReset, bucketUUID, serverSeqNo, metadataDocs,
                   offsets, dirtyOffsets, anyDirtyOffset, saveLock, loadInfo,
                   lastMetaErr, lastSaved>>

SaveLockHolder_None(t) == "none"

\* s.saveLock.Lock(); defer s.saveLock.Unlock()
SaveLockHolder(t) == t

\* s.saveLock.Lock(), then the dump is built from the offsets
SaveLockSave(t) ==
    /\ UNCHANGED notCkptVars
    /\ savePc[t] = "wantSaveLock"
    /\ saveLock = "none"
    /\ saveLock' = SaveLockHolder(t)
    /\ savePc' = [savePc EXCEPT ![t] = "saving"]
    /\ saveLocal' = [saveLocal EXCEPT
                        ![t].dump = Dump(saveLocal[t].offsets, bucketUUID)]
    /\ UNCHANGED <<ckPc, autoReset, bucketUUID, serverSeqNo, metadataDocs,
                   offsets, dirtyOffsets, anyDirtyOffset, offsetsLock, lastReturn,
                   loadInfo, lastMetaErr, lastSaved>>

ShouldUnmark_Always(err) == TRUE

\* if err == nil { s.stream.UnmarkDirtyOffsets() }
ShouldUnmark(err) == err = "nil"

\* metadata.Save returns; the deferred unlocks run
SaveMetadata(t) ==
    /\ UNCHANGED notCkptVars
    /\ savePc[t] = "saving"
    /\ \E err \in {"nil", "error"}, all \in BOOLEAN :
          LET writeSet == IF all THEN DOMAIN saveLocal[t].dump
                          ELSE {v \in DOMAIN saveLocal[t].dump :
                                   saveLocal[t].dirtyOffsets[v]}
          IN  /\ metadataDocs' = IF err = "nil"
                                 THEN MetadataSave(metadataDocs, saveLocal[t].dump, writeSet)
                                 ELSE metadataDocs
              /\ lastSaved' = IF err = "nil"
                              THEN [valid |-> TRUE, offsets |-> saveLocal[t].offsets,
                                    bucketUUID |-> bucketUUID]
                              ELSE lastSaved
              /\ lastMetaErr' = err
              /\ saveLocal' = [saveLocal EXCEPT ![t] = NoSaveLocal]
              /\ lastReturn' = [outcome |-> err,
                                anyDirtyOffset |-> saveLocal[t].anyDirtyOffset,
                                sinceSave |-> FALSE,
                                calls |-> saveLocal[t].calls + 1]
              /\ IF ShouldUnmark(err)
                 THEN /\ dirtyOffsets' = UnmarkedDirtyOffsets
                      /\ anyDirtyOffset' = FALSE
                 ELSE UNCHANGED <<dirtyOffsets, anyDirtyOffset>>
    /\ savePc' = [savePc EXCEPT ![t] = "idle"]
    /\ saveLock' = "none"
    /\ offsetsLock' = "none"
    /\ UNCHANGED <<ckPc, autoReset, bucketUUID, serverSeqNo, offsets, loadInfo>>

\* the process ends and a new one starts on the same bucket
Restart ==
    /\ UNCHANGED notCkptVars
    /\ ckPc \in {"running", "panic"}
    /\ ckPc' = "boot"
    /\ offsets' = ZeroLedger
    /\ dirtyOffsets' = UnmarkedDirtyOffsets
    /\ anyDirtyOffset' = FALSE
    /\ offsetsLock' = "none"
    /\ saveLock' = "none"
    /\ savePc' = [t \in Savers |-> "idle"]
    /\ saveLocal' = [t \in Savers |-> NoSaveLocal]
    /\ lastReturn' = NoReturn
    /\ loadInfo' = NoLoad
    /\ lastMetaErr' = "none"
    /\ UNCHANGED <<autoReset, bucketUUID, serverSeqNo, metadataDocs, lastSaved>>

\* the checkpoint manager at rest, whatever the ledger holds
CkptOff ==
    /\ ckPc = "off"
    /\ autoReset = "none"
    /\ bucketUUID = "bucket-a"
    /\ serverSeqNo = [v \in VbIds |-> 0]
    /\ metadataDocs = NoDump
    /\ offsetsLock = "none"
    /\ saveLock = "none"
    /\ savePc = [t \in Savers |-> "idle"]
    /\ saveLocal = [t \in Savers |-> NoSaveLocal]
    /\ lastReturn = NoReturn
    /\ loadInfo = NoLoad
    /\ lastMetaErr = "none"
    /\ lastSaved = NoLastSaved

CkptIdle ==
    /\ CkptOff
    /\ offsets = ZeroLedger
    /\ dirtyOffsets = UnmarkedDirtyOffsets
    /\ anyDirtyOffset = FALSE

(***************************************************************************)
(* client.OpenStream and client.openStreamWithRollback (cluster client).   *)
(***************************************************************************)
\* the stream end sequence number of every open request, 0xffffffffffffffff
StreamEndSeqNo == "0xffffffffffffffff"

Observers == {"observer"}

\* the collectionIDs argument: nil, or a map whose keys are ids
NilCollectionIDs == [isNil |-> TRUE, ids |-> {}]

CollectionIDMaps ==
    {NilCollectionIDs} \cup {[isNil |-> FALSE, ids |-> s] : s \in SUBSET {8, 9}}

\* errors a completion callback may carry
NilErr == [kind |-> "nil", seqNo |-> 0]

OtherErr == [kind |-> "other", seqNo |-> 0]

SubmitErr == [kind |-> "submit", seqNo |-> 0]

DCPRollbackError(seqNo) == [kind |-> "rollback", seqNo |-> seqNo]

NoErr == [kind |-> "pending", seqNo |-> 0]

Completions == {NilErr, OtherErr} \cup {DCPRollbackError(r) : r \in 0..MaxSeqNo}

\* failover logs the server may deliver with a completion (a nil log on error)
FailoverLogsOf(v) == {<<>>, <<FailoverHead(v)>>, <<FailoverHead(v) + 1, FailoverHead(v)>>}

RECURSIVE SetToSeq(_)
SetToSeq(S) ==
    IF S = {} THEN <<>>
    ELSE LET x == CHOOSE y \in S : \A z \in S : y <= z
         IN  <<x>> \o SetToSeq(S \ {x})

AttachFilter_Always(cids, support) == ~cids.isNil

\* if collectionIDs != nil && s.dcpAgent.HasCollectionsSupport()
AttachFilter(cids, support) == ~cids.isNil /\ support

\* gocbcore.OpenStreamOptions built by OpenStream
OpenStreamOptions(cids, support) ==
    IF AttachFilter(cids, support)
    THEN [hasFilter |-> TRUE, CollectionIDs |-> SetToSeq(cids.ids)]
    ELSE [hasFilter |-> FALSE, CollectionIDs |-> <<>>]

\* one call of dcpAgent.OpenStream
AgentOpenStream(vbID, vbUUID, startSeqNo, endSeqNo, snapStartSeqNo, snapEndSeqNo, observer, options) ==
    [vbID |-> vbID, flags |-> 0, vbUUID |-> vbUUID, startSeqNo |-> startSeqNo,
     endSeqNo |-> endSeqNo, snapStartSeqNo |-> snapStartSeqNo,
     snapEndSeqNo |-> snapEndSeqNo, observer |-> observer, options |-> options]

FirstOpenRequest_SeqAsSnapshot(vbID, offset, observer, options) ==
    AgentOpenStream(vbID, offset.VbUUID, offset.SeqNo, StreamEndSeqNo,
                    offset.SeqNo, offset.SeqNo, observer, options)

\* the request OpenStream issues from the offset it was given
FirstOpenRequest(vbID, offset, observer, options) ==
    AgentOpenStream(vbID, offset.VbUUID, offset.SeqNo, StreamEndSeqNo,
                    offset.SnapshotMarker.StartSeqNo,
                    offset.SnapshotMarker.EndSeqNo, observer, options)

RollbackOpenRequest_FromFailed(vbID, failedSeqNo, rollbackSeqNo, observer, options) ==
    AgentOpenStream(vbID, 0, failedSeqNo, StreamEndSeqNo, rollbackSeqNo,
                    rollbackSeqNo, observer, options)

\* the request openStreamWithRollback issues; failedSeqNo is only logged
RollbackOpenRequest(vbID, failedSeqNo, rollbackSeqNo, observer, options) ==
    AgentOpenStream(vbID, 0, rollbackSeqNo, StreamEndSeqNo, rollbackSeqNo,
                    rollbackSeqNo, observer, options)

\* err.(gocbcore.DCPRollbackError)
IsRollbackErr(err) == err.kind = "rollback"

RollbackResult_First(firstAttempt, reopen) == firstAttempt

\* return s.openStreamWithRollback(...): the re-open's result is the result
RollbackResult(firstAttempt, reopen) == reopen

\* OpenStream up to opm.Wait: the options are built, the request is handed
\* to the agent, which may refuse it at once
OpenStreamSubmit ==
    /\ UNCHANGED notOpenVars
    /\ openPc = "call"
    /\ LET options == OpenStreamOptions(openArgs.collectionIDs, hasCollectionsSupport)
       IN  agentCalls' = Append(agentCalls,
                                FirstOpenRequest(openVb, offsets[openVb],
                                                 openArgs.observer, options))
    /\ \E refused \in BOOLEAN :
          IF refused
          THEN /\ openPc' = "done"
               /\ openResult' = SubmitErr
               /\ firstErr' = SubmitErr
          ELSE /\ openPc' = "wait1"
               /\ UNCHANGED <<openResult, firstErr>>
    /\ UNCHANGED <<openVb, openArgs, hasCollectionsSupport, openCh, secondErr,
                   observerFailoverLogs, openCompletions>>

\* observer.SetFailoverLogs(vbID, failoverLogs) in the callback of OpenStream
OpenCallbackLogs(cached, failoverLogs) == failoverLogs

RollbackCallbackLogs_Keep(cached, failoverLogs) == cached

\* observer.SetFailoverLogs(vbID, failoverLogs) in the callback of
\* openStreamWithRollback
RollbackCallbackLogs(cached, failoverLogs) == failoverLogs

\* the completion callback of the first request: SetFailoverLogs, Resolve,
\* ch <- err
OpenStreamCallback ==
    /\ UNCHANGED notOpenVars
    /\ openPc = "wait1"
    /\ \E err \in Completions, logs \in FailoverLogsOf(openVb) :
          /\ observerFailoverLogs' =
                [observerFailoverLogs EXCEPT
                    ![openVb] = OpenCallbackLogs(observerFailoverLogs[openVb], logs)]
          /\ openCompletions' = Append(openCompletions, [err |-> err, logs |-> logs])
          /\ openCh' = err
    /\ openPc' = "recv1"
    /\ UNCHANGED <<openVb, openArgs, hasCollectionsSupport, agentCalls,
                   firstErr, secondErr, openResult>>

\* err = <-ch; a rollback error leads into openStreamWithRollback up to its
\* opm.Wait, anything else is returned
OpenStreamReceive ==
    /\ UNCHANGED notOpenVars
    /\ openPc = "recv1"
    /\ firstErr' = openCh
    /\ openCh' = NoErr
    /\ IF IsRollbackErr(openCh)
       THEN /\ agentCalls' = Append(agentCalls,
                                    RollbackOpenRequest(openVb, offsets[openVb].SeqNo,
                                                        openCh.seqNo, openArgs.observer,
                                                        agentCalls[1].options))
            /\ \E refused \in BOOLEAN :
                  IF refused
                  THEN /\ openPc' = "done"
                       /\ secondErr' = SubmitErr
                       /\ openResult' = RollbackResult(openCh, SubmitErr)
                  ELSE /\ openPc' = "wait2"
                       /\ UNCHANGED <<secondErr, openResult>>
       ELSE /\ openPc' = "done"
            /\ openResult' = openCh
            /\ UNCHANGED <<agentCalls, secondErr>>
    /\ UNCHANGED <<openVb, openArgs, hasCollectionsSupport, observerFailoverLogs,
                   openCompletions>>

\* the completion callback of the re-open
RollbackCallback ==
    /\ UNCHANGED notOpenVars
    /\ openPc = "wait2"
    /\ \E err \in Completions, logs \in FailoverLogsOf(openVb) :
          /\ observerFailoverLogs' =
                [observerFailoverLogs EXCEPT
                    ![openVb] = RollbackCallbackLogs(observerFailoverLogs[openVb], logs)]
          /\ openCompletions' = Append(openCompletions, [err |-> err, logs |-> logs])
          /\ openCh' = err
    /\ openPc' = "recv2"
    /\ UNCHANGED <<openVb, openArgs, hasCollectionsSupport, agentCalls,
                   firstErr, secondErr, openResult>>

AfterReopen_Retry(err, calls) ==
    IF IsRollbackErr(err) /\ Len(calls) < 3 THEN "call" ELSE "done"

\* return <-ch: whatever the re-open gave, openStreamWithRollback returns
AfterReopen(err, calls) == "done"

\* return <-ch in openStreamWithRollback, returned by OpenStream as it is
RollbackReceive ==
    /\ UNCHANGED notOpenVars
    /\ openPc = "recv2"
    /\ secondErr' = openCh
    /\ openResult' = RollbackResult(firstErr, openCh)
    /\ openCh' = NoErr
    /\ openPc' = AfterReopen(openCh, agentCalls)
    /\ UNCHANGED <<openVb, openArgs, hasCollectionsSupport, agentCalls,
                   firstErr, observerFailoverLogs, openCompletions>>

\* the engine opens the stream of vBucket v: it reads the ledger's offset
\* and calls OpenStream with it
EngineOpenStream(v) ==
    /\ UNCHANGED notOpenVars
    /\ ckPc = "loaded"
    /\ openPc = "off"
    /\ openPc' = "call"
    /\ openVb' = v
    /\ \E cids \in {NilCollectionIDs, [isNil |-> FALSE, ids |-> {8}]} :
          openArgs' = [collectionIDs |-> cids, observer |-> "observer",
                       offset |-> offsets[v]]
    /\ UNCHANGED <<hasCollectionsSupport, agentCalls, openCh, firstErr,
                   secondErr, openResult, observerFailoverLogs, openCompletions>>

NoOpenArgs == [collectionIDs |-> NilCollectionIDs, observer |-> "observer",
               offset |-> NewOffset(0, 0, 0, 0)]

OpenIdle ==
    /\ openPc = "off"
    /\ openVb = 0
    /\ openArgs = NoOpenArgs
    /\ hasCollectionsSupport = FALSE
    /\ agentCalls = <<>>
    /\ openCh = NoErr
    /\ firstErr = NoErr
    /\ secondErr = NoErr
    /\ openResult = NoErr
    /\ observerFailoverLogs = [v \in VbIds |-> <<>>]
    /\ openCompletions = <<>>

(***************************************************************************)
(* dcp.Start and dcp.Close (utils.go): the three shutdown channels, each   *)
(* with a buffer of one, the select that ends Start, and Close.            *)
(***************************************************************************)
CheckpointTypeAuto == "auto"

Signals == {"stop", "cancel", "health"}

\* the channels of newDcp have room for one value
ChanCap == 1

\* the signals waiting in stopCh, cancelCh and healCheckFailedCh
Pending == {k \in Signals : shutdownCh[k] > 0}

SetsCloseWithCancel_AnyButStop(k) == k # "stop"

\* only the case <-s.cancelCh sets closeWithCancel
SetsCloseWithCancel(k) == k = "cancel"

\* the steps of Start that can fault: the metadata choice, stream.Open, the
\* bus subscription, the start of the health check
StartFaults == {"metadata", "stream.Open", "bus.SubscribeAsync", "healthCheck.Start"}

\* the steps of Start up to the bus subscription
StartOpenSteps(cfg) ==
    <<"metadata", "stream.NewStream">>
    \o (IF cfg.leaderElectionEnabled THEN <<"leaderElection.Start">> ELSE <<>>)
    \o <<"stream.Open", "bus.SubscribeAsync">>

StartNotifySteps_ReadyFirst(cfg) ==
    (IF ~cfg.apiDisabled THEN <<"go api">> ELSE <<>>)
    \o <<"signal.Notify", "readyCh<-">>
    \o (IF ~cfg.healthCheckDisabled THEN <<"healthCheck.Start">> ELSE <<>>)

\* the steps of Start from the spawn of the API task to the readiness signal
StartNotifySteps(cfg) ==
    (IF ~cfg.apiDisabled THEN <<"go api">> ELSE <<>>)
    \o <<"signal.Notify">>
    \o (IF ~cfg.healthCheckDisabled THEN <<"healthCheck.Start">> ELSE <<>>)
    \o <<"readyCh<-">>

StepPos(steps, c) ==
    IF \E i \in 1..Len(steps) : steps[i] = c
    THEN CHOOSE i \in 1..Len(steps) : steps[i] = c /\ \A j \in 1..(i - 1) : steps[j] # c
    ELSE 0

\* the steps made when step fault panics: those before it, then the panic
RunSteps(steps, fault) ==
    IF StepPos(steps, fault) > 0
    THEN SubSeq(steps, 1, StepPos(steps, fault) - 1) \o <<"panic">>
    ELSE steps

Panicked(log) == Len(log) > 0 /\ log[Len(log)] = "panic"

\* the readiness signals a run of steps sends
ReadySends(log) == Cardinality({i \in 1..Len(log) : log[i] = "readyCh<-"})

\* Start up to and including stream.Open and the bus subscription; the
\* stream holds stopCh from here on
StartOpen ==
    /\ UNCHANGED notLifeVars
    /\ startPc = "new"
    /\ startLog' = RunSteps(StartOpenSteps(lifeConfig), startFault)
    /\ startPc' = IF Panicked(startLog') THEN "panicked" ELSE "opened"
    /\ UNCHANGED <<lifeConfig, shutdownCh, closeWithCancel, arrivals, honored,
                   pendingAtSelect, apiSet, closeLog, streamCloseArg, readyCh,
                   startFault>>

\* the API task is spawned, signal.Notify registers cancelCh, the health
\* check starts, readiness is signalled: the send waits for room in readyCh
StartNotify ==
    /\ UNCHANGED notLifeVars
    /\ startPc = "opened"
    /\ LET steps == RunSteps(StartNotifySteps(lifeConfig), startFault)
       IN  /\ readyCh + ReadySends(steps) <= ChanCap
           /\ readyCh' = readyCh + ReadySends(steps)
           /\ startLog' = startLog \o steps
           /\ startPc' = IF Panicked(steps) THEN "panicked" ELSE "select"
    /\ UNCHANGED <<lifeConfig, shutdownCh, closeWithCancel, arrivals, honored,
                   pendingAtSelect, apiSet, closeLog, streamCloseArg, startFault>>

\* the application receives from the channel WaitUntilReady returned
ReadyReceive ==
    /\ UNCHANGED notLifeVars
    /\ readyCh > 0
    /\ readyCh' = readyCh - 1
    /\ UNCHANGED <<startPc, lifeConfig, shutdownCh, closeWithCancel, arrivals,
                   honored, pendingAtSelect, apiSet, closeLog, streamCloseArg,
                   startLog, startFault>>

\* the API task assigns s.api
ApiInit ==
    /\ UNCHANGED notLifeVars
    /\ startPc \in {"select", "blocked", "returned"}
    /\ ~lifeConfig.apiDisabled
    /\ ~apiSet
    /\ apiSet' = TRUE
    /\ UNCHANGED <<startPc, lifeConfig, shutdownCh, closeWithCancel, arrivals,
                   honored, pendingAtSelect, closeLog, streamCloseArg, readyCh,
                   startLog, startFault>>

\* Start leaves the select with signal k
Honor(k) ==
    /\ honored' = k
    /\ closeWithCancel' = (closeWithCancel \/ SetsCloseWithCancel(k))
    /\ startPc' = "returned"

\* the select statement: one of the ready cases, chosen by the runtime, or
\* the task blocks when none is ready
StartSelect ==
    /\ UNCHANGED notLifeVars
    /\ startPc = "select"
    /\ IF Pending = {}
       THEN /\ startPc' = "blocked"
            /\ UNCHANGED <<shutdownCh, closeWithCancel, honored, pendingAtSelect>>
       ELSE \E k \in Pending :
               /\ Honor(k)
               /\ shutdownCh' = [shutdownCh EXCEPT ![k] = @ - 1]
               /\ pendingAtSelect' = Pending
    /\ UNCHANGED <<lifeConfig, arrivals, apiSet, closeLog, streamCloseArg,
                   readyCh, startLog, startFault>>

\* signal k is sent: it is handed to a Start blocked in the select, or else
\* it waits in the channel's buffer
Send(k) ==
    /\ k \notin {arrivals[i] : i \in 1..Len(arrivals)}
    /\ shutdownCh[k] < ChanCap
    /\ arrivals' = Append(arrivals, k)
    /\ IF startPc = "blocked"
       THEN /\ Honor(k)
            /\ pendingAtSelect' = {k}
            /\ UNCHANGED shutdownCh
       ELSE /\ shutdownCh' = [shutdownCh EXCEPT ![k] = @ + 1]
            /\ UNCHANGED <<startPc, closeWithCancel, honored, pendingAtSelect>>
    /\ UNCHANGED <<lifeConfig, apiSet, closeLog, streamCloseArg, readyCh,
                   startLog, startFault>>

\* the stream asks to stop
StopRequest ==
    /\ UNCHANGED notLifeVars
    /\ startPc \in {"opened", "select", "blocked", "returned"}
    /\ Send("stop")

\* the OS delivers one of the signals registered with signal.Notify
OsSignal ==
    /\ UNCHANGED notLifeVars
    /\ startPc \in {"select", "blocked", "returned"}
    /\ Send("cancel")

\* the health check gives up
HealthCheckFailed ==
    /\ UNCHANGED notLifeVars
    /\ startPc \in {"select", "blocked", "returned"}
    /\ ~lifeConfig.healthCheckDisabled
    /\ Send("health")

SavesOnClose_Always(cfg) == TRUE

\* if s.config.Checkpoint.Type == stream.CheckpointTypeAuto { s.stream.Save() }
SavesOnClose(cfg) == cfg.checkpointType = CheckpointTypeAuto

\* the engine's close(graceful): close every open stream; if graceful, issue
\* a final save; shut down the scheduler. Close passes closeWithCancel.
StreamClose(graceful) ==
    <<"stream.Close", "stream.closeAllStreams">>
    \o (IF graceful THEN <<"stream.finalSave">> ELSE <<>>)
    \o <<"stream.stopSchedule">>

\* the calls Close makes, in order; it faults at s.api.Unregister... when
\* s.api is nil
CloseCalls(cfg, api, cancel) ==
    (IF ~cfg.healthCheckDisabled THEN <<"healthCheck.Stop">> ELSE <<>>)
    \o <<"vBucketDiscovery.Close">>
    \o (IF SavesOnClose(cfg) THEN <<"stream.Save">> ELSE <<>>)
    \o <<"bus.Unsubscribe">>
    \o StreamClose(cancel)
    \o (IF cfg.leaderElectionEnabled
        THEN <<"leaderElection.Stop", "serviceDiscovery.StopMonitor",
               "serviceDiscovery.StopHeartbeat">>
        ELSE <<>>)
    \o (IF api /\ ~cfg.apiDisabled THEN <<"apiShutdown<-">> ELSE <<>>)
    \o <<"client.DcpClose", "client.Close">>
    \o (IF api THEN <<"api.UnregisterMetricCollectors", "closed">>
        ELSE <<"nil pointer dereference">>)

\* Close, called once Start has returned
Close ==
    /\ UNCHANGED notLifeVars
    /\ startPc = "returned"
    /\ startPc' = "closed"
    /\ closeLog' = CloseCalls(lifeConfig, apiSet, closeWithCancel)
    /\ streamCloseArg' = [called |-> TRUE, closeWithCancel |-> closeWithCancel]
    /\ UNCHANGED <<lifeConfig, shutdownCh, closeWithCancel, arrivals, honored,
                   pendingAtSelect, apiSet, readyCh, startLog, startFault>>

NoLifeConfig == [healthCheckDisabled |-> FALSE, apiDisabled |-> FALSE,
                 leaderElectionEnabled |-> FALSE, checkpointType |-> "manual"]

LifeIdle ==
    /\ startPc = "off"
    /\ lifeConfig = NoLifeConfig
    /\ shutdownCh = [k \in Signals |-> 0]
    /\ closeWithCancel = FALSE
    /\ arrivals = <<>>
    /\ honored = "none"
    /\ pendingAtSelect = {}
    /\ apiSet = FALSE
    /\ closeLog = <<>>
    /\ streamCloseArg = [called |-> FALSE, closeWithCancel |-> FALSE]
    /\ readyCh = 0
    /\ startLog = <<>>
    /\ startFault = "none"

(***************************************************************************)
(* The event bus (EventBus.SubscribeAsync with transactional = true) and   *)
(* dcp.membershipChangedListener (utils.go).                               *)
(***************************************************************************)
Publishers == 1..MaxPublishers

Transactional_Off == FALSE

\* s.bus.SubscribeAsync(MembershipChangedBusEventName, listener, true)
Transactional == TRUE

\* Start registers the listener after stream.Open
BusSubscribe ==
    /\ UNCHANGED notBusVars
    /\ subscribed = "no"
    /\ subscribed' = "yes"
    /\ UNCHANGED <<handlerLock, pubPc, busPublished, delivered, spawned,
                   rebalancing, rebalanceCalls>>

\* Close removes the listener; a listener task already started goes on
BusUnsubscribe ==
    /\ UNCHANGED notBusVars
    /\ subscribed = "yes"
    /\ subscribed' = "removed"
    /\ UNCHANGED <<handlerLock, pubPc, busPublished, delivered, spawned,
                   rebalancing, rebalanceCalls>>

\* bus.Publish: with no handler registered the event is dropped, else the
\* publisher goes on to the handler
Publish(p) ==
    /\ UNCHANGED notBusVars
    /\ pubPc[p] = "idle"
    /\ busPublished < MaxEvents
    /\ busPublished' = busPublished + 1
    /\ pubPc' = [pubPc EXCEPT ![p] = IF subscribed = "yes" THEN "handler" ELSE "idle"]
    /\ UNCHANGED <<subscribed, handlerLock, delivered, spawned, rebalancing,
                   rebalanceCalls>>

\* for a transactional handler the publisher takes the handler's mutex, then
\* starts the listener task
PublishDeliver(p) ==
    /\ UNCHANGED notBusVars
    /\ pubPc[p] = "handler"
    /\ IF Transactional
       THEN handlerLock = "free" /\ handlerLock' = "held"
       ELSE UNCHANGED handlerLock
    /\ pubPc' = [pubPc EXCEPT ![p] = "idle"]
    /\ delivered' = delivered + 1
    /\ spawned' = spawned + 1
    /\ UNCHANGED <<subscribed, busPublished, rebalancing, rebalanceCalls>>

\* the listener task runs membershipChangedListener: s.stream.Rebalance()
ListenerCall ==
    /\ UNCHANGED notBusVars
    /\ spawned > 0
    /\ spawned' = spawned - 1
    /\ rebalancing' = rebalancing + 1
    /\ rebalanceCalls' = rebalanceCalls + 1
    /\ UNCHANGED <<subscribed, handlerLock, pubPc, busPublished, delivered>>

\* Rebalance returns, the listener returns, the handler's mutex is released
ListenerReturn ==
    /\ UNCHANGED notBusVars
    /\ rebalancing > 0
    /\ rebalancing' = rebalancing - 1
    /\ handlerLock' = IF Transactional THEN "free" ELSE handlerLock
    /\ UNCHANGED <<subscribed, pubPc, busPublished, delivered, spawned,
                   rebalanceCalls>>

BusIdle ==
    /\ subscribed = "no"
    /\ handlerLock = "free"
    /\ pubPc = [p \in Publishers |-> "off"]
    /\ busPublished = 0
    /\ delivered = 0
    /\ spawned = 0
    /\ rebalancing = 0
    /\ rebalanceCalls = 0

(***************************************************************************)
(* client.Ping (part_001): the completion callback's verdict over the      *)
(* ping result and the waiter.                                             *)
(***************************************************************************)
MemdService == "memd"

MgmtService == "mgmt"

PingStateOK == "ok"

\* one endpoint's entry of a ping result
EndpointResults == [Error : {"nil", "err"}, State : {PingStateOK, "timeout"}]

RECURSIVE SeqsUpTo(_, _)
SeqsUpTo(S, n) ==
    IF n = 0 THEN {<<>>}
    ELSE SeqsUpTo(S, n - 1)
         \cup {Append(q, e) : q \in {r \in SeqsUpTo(S, n - 1) : Len(r) = n - 1}, e \in S}

\* result.Services: a map from the services that answered to their endpoints
ServiceMaps ==
    {[present |-> ps, memd |-> a, mgmt |-> b] :
        ps \in SUBSET {MemdService, MgmtService},
        a \in SeqsUpTo(EndpointResults, MaxEndpoints),
        b \in SeqsUpTo(EndpointResults, MaxEndpoints)}

EndpointHealthy_StateOnly(e) == e.State = PingStateOK

\* memdServiceResult.Error == nil && memdServiceResult.State == PingStateOK
EndpointHealthy(e) == e.Error = "nil" /\ e.State = PingStateOK

\* the loop over one service's endpoints, left at the first healthy one
RECURSIVE ServiceLoop(_, _)
ServiceLoop(results, i) ==
    IF i > Len(results) THEN FALSE
    ELSE IF EndpointHealthy(results[i]) THEN TRUE
    ELSE ServiceLoop(results, i + 1)

\* if results, ok := result.Services[service]; ok { ... }
ServiceSuccess(services, service) ==
    /\ service \in services.present
    /\ ServiceLoop(IF service = MemdService THEN services.memd ELSE services.mgmt, 1)

\* the err the callback sends on errorCh
PingVerdict(services, err) ==
    LET memdSuccess == err = "nil" /\ ServiceSuccess(services, MemdService)
        mgmtSuccess == err = "nil" /\ ServiceSuccess(services, MgmtService)
    IN  IF ~memdSuccess \/ ~mgmtSuccess
        THEN IF err = "nil" THEN "some services are not healthy" ELSE err
        ELSE err

\* s.agent.Ping(...): the request is refused at submission, or is pending
PingSubmit ==
    /\ UNCHANGED notPingVars
    /\ pingPc = "call"
    /\ IF pingInput.submitErr
       THEN /\ pingPc' = "returned"
            /\ pingReturn' = "submit error"
       ELSE /\ pingPc' = "waiting"
            /\ UNCHANGED pingReturn
    /\ UNCHANGED <<pingInput, pingCb, pingErrorCh>>

\* the completion callback: verdict, opm.Resolve(), errorCh <- err
PingCallback ==
    /\ UNCHANGED notPingVars
    /\ ~pingInput.submitErr
    /\ pingPc \in {"waiting", "returned"}
    /\ pingCb = "none"
    /\ pingCb' = "sending"
    /\ pingErrorCh' = PingVerdict(pingInput.services, pingInput.err)
    /\ UNCHANGED <<pingPc, pingInput, pingReturn>>

\* opm.Wait gives up at the deadline, the completion not having come
PingDeadline ==
    /\ UNCHANGED notPingVars
    /\ pingPc = "waiting"
    /\ pingCb = "none"
    /\ pingPc' = "returned"
    /\ pingReturn' = "deadline exceeded"
    /\ UNCHANGED <<pingInput, pingCb, pingErrorCh>>

\* opm.Wait returns nil after Resolve; return <-errorCh
PingReceive ==
    /\ UNCHANGED notPingVars
    /\ pingPc = "waiting"
    /\ pingCb = "sending"
    /\ pingPc' = "returned"
    /\ pingReturn' = pingErrorCh
    /\ pingCb' = "done"
    /\ UNCHANGED <<pingInput, pingErrorCh>>

NoPingInput ==
    [submitErr |-> FALSE, err |-> "nil",
     services |-> [present |-> {}, memd |-> <<>>, mgmt |-> <<>>]]

PingIdle ==
    /\ pingPc = "off"
    /\ pingInput = NoPingInput
    /\ pingCb = "none"
    /\ pingErrorCh = "none"
    /\ pingReturn = "none"

(***************************************************************************)
(* checkpoint.StartSchedule and StopSchedule (part_002): the scheduler     *)
(* task makes the ticker and stores it in s.schedule, which StopSchedule   *)
(* reads without any synchronisation.                                      *)
(***************************************************************************)
\* if s.config.Checkpoint.Type != CheckpointTypeAuto { return }
ScheduleEnabled(type) == type = CheckpointTypeAuto

\* what StopSchedule may read in s.schedule: the write of the scheduler task
\* is not ordered before the read, so nil may still be seen
ScheduleSeen(current) == IF current = "nil" THEN {"nil"} ELSE {"nil", current}

\* StartSchedule: returns at once unless the type is auto, else starts the
\* scheduler task and returns
StartSchedule ==
    /\ UNCHANGED notSchedVars
    /\ startCalls = 0
    /\ startCalls' = 1
    /\ schedTask' = IF ScheduleEnabled(schedType) THEN "spawned" ELSE schedTask
    /\ UNCHANGED <<schedType, schedule, tickerOn, tickerC, ticks, stopCalls,
                   scheduledSaves, savesAfterStop>>

\* the scheduler task: s.schedule = time.NewTicker(interval)
TaskNewTicker ==
    /\ UNCHANGED notSchedVars
    /\ schedTask = "spawned"
    /\ schedTask' = "looping"
    /\ schedule' = "ticker"
    /\ tickerOn' = TRUE
    /\ UNCHANGED <<schedType, tickerC, ticks, startCalls, stopCalls,
                   scheduledSaves, savesAfterStop>>

\* an interval elapses: the running ticker sends on its channel, and drops
\* the tick when the channel is full
Tick ==
    /\ UNCHANGED notSchedVars
    /\ tickerOn
    /\ ticks < MaxTicks
    /\ ticks' = ticks + 1
    /\ tickerC' = 1
    /\ UNCHANGED <<schedType, schedule, tickerOn, schedTask, startCalls,
                   stopCalls, scheduledSaves, savesAfterStop>>

\* the scheduler task: for range s.schedule.C { s.Save() }
TaskSave ==
    /\ UNCHANGED notSchedVars
    /\ schedTask = "looping"
    /\ tickerC = 1
    /\ tickerC' = 0
    /\ scheduledSaves' = scheduledSaves + 1
    /\ savesAfterStop' = IF stopCalls > 0 THEN savesAfterStop + 1 ELSE savesAfterStop
    /\ UNCHANGED <<schedType, schedule, tickerOn, ticks, schedTask, startCalls,
                   stopCalls>>

\* StopSchedule: returns at once unless the type is auto; stops the ticker
\* it finds in s.schedule, if it finds one
StopSchedule ==
    /\ UNCHANGED notSchedVars
    /\ startCalls = 1
    /\ stopCalls < MaxStops
    /\ stopCalls' = stopCalls + 1
    /\ IF ScheduleEnabled(schedType)
       THEN \E seen \in ScheduleSeen(schedule) :
               tickerOn' = IF seen # "nil" THEN FALSE ELSE tickerOn
       ELSE UNCHANGED tickerOn
    /\ UNCHANGED <<schedType, schedule, tickerC, ticks, schedTask, startCalls,
                   scheduledSaves, savesAfterStop>>

SchedIdle ==
    /\ schedType = "manual"
    /\ schedule = "nil"
    /\ tickerOn = FALSE
    /\ tickerC = 0
    /\ ticks = 0
    /\ schedTask = "none"
    /\ startCalls = 0
    /\ stopCalls = 0
    /\ scheduledSaves = 0
    /\ savesAfterStop = 0

(***************************************************************************)
(* Specification SpecChunk: ChunkSlice on the sorted ids 0..N-1.           *)
(***************************************************************************)
ChunkIdle ==
    /\ slice = <<>>
    /\ chunks = 1
    /\ chunkPc = "off"
    /\ result = [panic |-> FALSE, chunks |-> <<>>]

InitChunk ==
    /\ CkptIdle
    /\ OpenIdle
    /\ LifeIdle
    /\ BusIdle
    /\ PingIdle
    /\ SchedIdle
    /\ slice \in {VbIdSeq(n) : n \in 0..MaxVBuckets}
    /\ chunks \in 1..MaxMembers
    /\ chunkPc = "input"
    /\ result = [panic |-> FALSE, chunks |-> <<>>]

ChunkSliceCall ==
    /\ chunkPc = "input"
    /\ result' = ChunkSlice(slice, chunks)
    /\ chunkPc' = "done"
    /\ UNCHANGED <<slice, chunks>>
    /\ UNCHANGED notChunkVars

NextChunk == ChunkSliceCall

SpecChunk == InitChunk /\ [][NextChunk]_vars

(***************************************************************************)
(* Specification SpecCheckpoint: a process loads its checkpoint, streams   *)
(* events into the ledger and saves; it may restart at any time.           *)
(***************************************************************************)
InitCheckpoint ==
    /\ ChunkIdle
    /\ OpenIdle
    /\ LifeIdle
    /\ BusIdle
    /\ PingIdle
    /\ SchedIdle
    /\ ckPc = "boot"
    /\ autoReset \in {CheckpointAutoResetTypeLatest, "none"}
    /\ bucketUUID = "bucket-a"
    /\ serverSeqNo \in [VbIds -> {0, MaxSeqNo}]
    /\ metadataDocs \in {NoDump, StaleDocs}
    /\ offsets = ZeroLedger
    /\ dirtyOffsets = UnmarkedDirtyOffsets
    /\ anyDirtyOffset = FALSE
    /\ offsetsLock = "none"
    /\ saveLock = "none"
    /\ savePc = [t \in Savers |-> "idle"]
    /\ saveLocal = [t \in Savers |-> NoSaveLocal]
    /\ lastReturn = NoReturn
    /\ loadInfo = NoLoad
    /\ lastMetaErr = "none"
    /\ lastSaved = NoLastSaved

NextCheckpoint ==
    \/ Load
    \/ OpenStreams
    \/ Restart
    \/ \E v \in VbIds : SnapshotMarker(v)
    \/ \E v \in VbIds : Mutation(v)
    \/ \E t \in Savers : SaveLockOffsets(t)
    \/ \E t \in Savers : SaveGetOffsets(t)
    \/ \E t \in Savers : SaveLockSave(t)
    \/ \E t \in Savers : SaveMetadata(t)

SpecCheckpoint == InitCheckpoint /\ [][NextCheckpoint]_vars

(***************************************************************************)
(* Specification SpecOpen: the engine calls OpenStream for one vBucket     *)
(* with the offset its ledger holds; the server completes each request     *)
(* with success, a rollback or another error.                              *)
(***************************************************************************)
\* offsets a ledger can hold: startSeqNo <= seqNo <= endSeqNo
LedgerOffsets(v) ==
    {NewOffset(u, s, a, b) : u \in {0, FailoverHead(v)},
                             s \in 0..MaxSeqNo, a \in 0..MaxSeqNo, b \in 0..MaxSeqNo}

InitOpen ==
    /\ ChunkIdle
    /\ CkptOff
    /\ LifeIdle
    /\ BusIdle
    /\ PingIdle
    /\ SchedIdle
    /\ openPc = "call"
    /\ openVb \in VbIds
    /\ \E o \in LedgerOffsets(openVb) :
          /\ o.SnapshotMarker.StartSeqNo <= o.SeqNo
          /\ o.SeqNo <= o.SnapshotMarker.EndSeqNo
          /\ offsets = [ZeroLedger EXCEPT ![openVb] = o]
    /\ \E d \in BOOLEAN :
          /\ dirtyOffsets = [UnmarkedDirtyOffsets EXCEPT ![openVb] = d]
          /\ anyDirtyOffset = d
    /\ \E cids \in CollectionIDMaps, ob \in Observers :
          openArgs = [collectionIDs |-> cids, observer |-> ob,
                      offset |-> offsets[openVb]]
    /\ hasCollectionsSupport \in BOOLEAN
    /\ agentCalls = <<>>
    /\ openCh = NoErr
    /\ firstErr = NoErr
    /\ secondErr = NoErr
    /\ openResult = NoErr
    /\ observerFailoverLogs = [v \in VbIds |-> <<>>]
    /\ openCompletions = <<>>

NextOpen ==
    \/ OpenStreamSubmit
    \/ OpenStreamCallback
    \/ OpenStreamReceive
    \/ RollbackCallback
    \/ RollbackReceive

SpecOpen == InitOpen /\ [][NextOpen]_vars

\* the same, where OpenStream keeps running and the server completes every
\* request it accepted
OpenFairness ==
    /\ WF_vars(OpenStreamSubmit)
    /\ WF_vars(OpenStreamCallback)
    /\ WF_vars(OpenStreamReceive)
    /\ WF_vars(RollbackCallback)
    /\ WF_vars(RollbackReceive)

SpecOpenLive == InitOpen /\ [][NextOpen]_vars /\ OpenFairness

(***************************************************************************)
(* Specification SpecResume: a process starts on persisted documents that  *)
(* satisfy startSeqNo <= seqNo <= endSeqNo (or on none), loads them and    *)
(* opens the stream of one vBucket from the loaded offset.                 *)
(***************************************************************************)
ValidOffset(o) ==
    /\ o.SnapshotMarker.StartSeqNo <= o.SeqNo
    /\ o.SeqNo <= o.SnapshotMarker.EndSeqNo

PersistedDocs ==
    {NoDump} \cup
    {[v \in VbIds |-> CheckpointDocument(NewOffset(FailoverHead(v), o.SeqNo,
                                                    o.SnapshotMarker.StartSeqNo,
                                                    o.SnapshotMarker.EndSeqNo), u)] :
        o \in {x \in LedgerOffsets(0) : x.VbUUID = 0 /\ ValidOffset(x)},
        u \in {"bucket-a", "bucket-old"}}

InitResume ==
    /\ ChunkIdle
    /\ OpenIdle
    /\ LifeIdle
    /\ BusIdle
    /\ PingIdle
    /\ SchedIdle
    /\ ckPc = "boot"
    /\ autoReset \in {CheckpointAutoResetTypeLatest, "none"}
    /\ bucketUUID = "bucket-a"
    /\ serverSeqNo \in [VbIds -> {0, MaxSeqNo}]
    /\ metadataDocs \in PersistedDocs
    /\ offsets = ZeroLedger
    /\ dirtyOffsets = UnmarkedDirtyOffsets
    /\ anyDirtyOffset = FALSE
    /\ offsetsLock = "none"
    /\ saveLock = "none"
    /\ savePc = [t \in Savers |-> "idle"]
    /\ saveLocal = [t \in Savers |-> NoSaveLocal]
    /\ lastReturn = NoReturn
    /\ loadInfo = NoLoad
    /\ lastMetaErr = "none"
    /\ lastSaved = NoLastSaved

NextResume ==
    \/ Load
    \/ \E v \in VbIds : EngineOpenStream(v)
    \/ OpenStreamSubmit
    \/ OpenStreamCallback
    \/ OpenStreamReceive
    \/ RollbackCallback
    \/ RollbackReceive

SpecResume == InitResume /\ [][NextResume]_vars

(***************************************************************************)
(* Specification SpecLifecycle: Start runs to its select, the shutdown     *)
(* signals arrive in any order and at any time, Close follows Start.       *)
(***************************************************************************)
InitLifecycle ==
    /\ ChunkIdle
    /\ CkptIdle
    /\ OpenIdle
    /\ BusIdle
    /\ PingIdle
    /\ SchedIdle
    /\ startPc = "new"
    /\ lifeConfig \in [healthCheckDisabled : BOOLEAN, apiDisabled : BOOLEAN,
                       leaderElectionEnabled : BOOLEAN,
                       checkpointType : {CheckpointTypeAuto, "manual"}]
    /\ shutdownCh = [k \in Signals |-> 0]
    /\ closeWithCancel = FALSE
    /\ arrivals = <<>>
    /\ honored = "none"
    /\ pendingAtSelect = {}
    /\ apiSet = FALSE
    /\ closeLog = <<>>
    /\ streamCloseArg = [called |-> FALSE, closeWithCancel |-> FALSE]
    /\ readyCh = 0
    /\ startLog = <<>>
    /\ startFault \in {"none"} \cup StartFaults

NextLifecycle ==
    \/ StartOpen
    \/ StartNotify
    \/ ReadyReceive
    \/ ApiInit
    \/ StartSelect
    \/ StopRequest
    \/ OsSignal
    \/ HealthCheckFailed
    \/ Close

SpecLifecycle == InitLifecycle /\ [][NextLifecycle]_vars

(***************************************************************************)
(* Specification SpecBus: publishers publish MembershipChanged events at   *)
(* any time, before and after the listener is registered.                  *)
(***************************************************************************)
InitBus ==
    /\ ChunkIdle
    /\ CkptIdle
    /\ OpenIdle
    /\ LifeIdle
    /\ PingIdle
    /\ SchedIdle
    /\ subscribed = "no"
    /\ handlerLock = "free"
    /\ pubPc = [p \in Publishers |-> "idle"]
    /\ busPublished = 0
    /\ delivered = 0
    /\ spawned = 0
    /\ rebalancing = 0
    /\ rebalanceCalls = 0

NextBus ==
    \/ BusSubscribe
    \/ BusUnsubscribe
    \/ \E p \in Publishers : Publish(p)
    \/ \E p \in Publishers : PublishDeliver(p)
    \/ ListenerCall
    \/ ListenerReturn

SpecBus == InitBus /\ [][NextBus]_vars

(***************************************************************************)
(* Specification SpecPing: one Ping() call against every answer of the     *)
(* cluster within the bounds.                                              *)
(***************************************************************************)
InitPing ==
    /\ ChunkIdle
    /\ CkptIdle
    /\ OpenIdle
    /\ LifeIdle
    /\ BusIdle
    /\ SchedIdle
    /\ pingPc = "call"
    /\ pingInput \in [submitErr : BOOLEAN, err : {"nil", "ping error"},
                      services : ServiceMaps]
    /\ pingCb = "none"
    /\ pingErrorCh = "none"
    /\ pingReturn = "none"

NextPing ==
    \/ PingSubmit
    \/ PingCallback
    \/ PingDeadline
    \/ PingReceive

SpecPing == InitPing /\ [][NextPing]_vars

\* the same, where Ping keeps running, the agent completes every request it
\* accepted and the callback's task is scheduled
PingFairness ==
    /\ WF_vars(PingSubmit)
    /\ WF_vars(PingCallback)
    /\ WF_vars(PingDeadline)
    /\ WF_vars(PingReceive)

SpecPingLive == InitPing /\ [][NextPing]_vars /\ PingFairness

(***************************************************************************)
(* Specification SpecSchedule: StartSchedule, the scheduler task, the      *)
(* ticker and StopSchedule (called up to MaxStops times) in any order.     *)
(***************************************************************************)
InitSchedule ==
    /\ ChunkIdle
    /\ CkptIdle
    /\ OpenIdle
    /\ LifeIdle
    /\ BusIdle
    /\ PingIdle
    /\ schedType \in {CheckpointTypeAuto, "manual"}
    /\ schedule = "nil"
    /\ tickerOn = FALSE
    /\ tickerC = 0
    /\ ticks = 0
    /\ schedTask = "none"
    /\ startCalls = 0
    /\ stopCalls = 0
    /\ scheduledSaves = 0
    /\ savesAfterStop = 0

NextSchedule ==
    \/ StartSchedule
    \/ TaskNewTicker
    \/ Tick
    \/ TaskSave
    \/ StopSchedule

SpecSchedule == InitSchedule /\ [][NextSchedule]_vars

(***************************************************************************)
(* C1: for N >= 1 vBuckets and M >= 1 members the M chunks of ChunkSlice   *)
(* over the sorted ids 0..N-1 are pairwise disjoint, each is a contiguous  *)
(* range, their concatenation in member order is 0..N-1 and any two chunk  *)
(* sizes differ by at most 1 (also when N < M and some chunks are empty).  *)
(***************************************************************************)
ChunkElems(ch) == {ch[k] : k \in 1..Len(ch)}

IsContiguous(ch) == \A k \in 1..(Len(ch) - 1) : ch[k + 1] = ch[k] + 1

ChunkPartition ==
    (chunkPc = "done" /\ Len(slice) >= 1) =>
        /\ ~result.panic
        /\ Len(result.chunks) = chunks
        /\ Concat(result.chunks) = slice
        /\ \A i \in 1..Len(result.chunks) : IsContiguous(result.chunks[i])
        /\ \A i, j \in 1..Len(result.chunks) :
              /\ i # j => ChunkElems(result.chunks[i]) \cap ChunkElems(result.chunks[j]) = {}
              /\ Len(result.chunks[i]) - Len(result.chunks[j]) <= 1

\* a call with fewer vBuckets than members has returned, with an empty chunk
\* after a non-empty one
ChunkPartitionWitness ==
    /\ chunkPc = "done"
    /\ Len(slice) >= 1
    /\ Len(slice) < chunks
    /\ ~result.panic
    /\ Len(result.chunks) = chunks
    /\ Len(result.chunks[1]) = 1
    /\ Len(result.chunks[chunks]) = 0

(***************************************************************************)
(* C2: a Save() that finds anyDirty = false makes zero calls to the        *)
(* metadata backend's Save; in particular a Save() that follows a          *)
(* successful Save() with no offset change in between returns without a    *)
(* backend write.                                                          *)
(***************************************************************************)
SaveSkipsWhenClean ==
    /\ [][\A t \in Savers :
            (/\ savePc[t] = "locked"
             /\ savePc'[t] # "locked"
             /\ ckPc' = "running"
             /\ (~anyDirtyOffset \/ UnchangedSinceSave))
            => /\ savePc'[t] = "idle"
               /\ lastReturn'.outcome = "skipped"
               /\ lastReturn'.calls = 0
               /\ metadataDocs' = metadataDocs]_vars
    /\ []((lastReturn.outcome # "none"
             /\ (~lastReturn.anyDirtyOffset \/ lastReturn.sinceSave))
           => lastReturn.calls = 0)

\* a Save() that came after a successful one, the ledger unchanged, has
\* returned without a backend call
SaveSkipsWhenCleanWitness ==
    /\ lastReturn.outcome = "skipped"
    /\ lastReturn.sinceSave
    /\ lastReturn.calls = 0
    /\ lastMetaErr = "nil"
    /\ lastSaved.valid

(***************************************************************************)
(* C3: Save() clears the dirty flags exactly when the backend's Save       *)
(* returned no error; on an error Save() returns normally, every dirty     *)
(* flag stays as it was, and the next Save() goes to the backend again.    *)
(***************************************************************************)
SaveUnmarksIffSaved ==
    [][/\ \A t \in Savers :
            (savePc[t] = "saving" /\ savePc'[t] # "saving" /\ ckPc' = "running")
            => /\ savePc'[t] = "idle"
               /\ lastReturn'.calls = 1
               /\ lastMetaErr' \in {"nil", "error"}
               /\ lastReturn'.outcome = lastMetaErr'
               /\ lastMetaErr' = "nil" =>
                     (~anyDirtyOffset' /\ \A v \in VbIds : ~dirtyOffsets'[v])
               /\ lastMetaErr' = "error" =>
                     (dirtyOffsets' = dirtyOffsets /\ anyDirtyOffset' = anyDirtyOffset
                        /\ offsets' = offsets)
       /\ ((ckPc = "running" /\ ckPc' = "running"
              /\ \E v \in VbIds : dirtyOffsets[v] /\ ~dirtyOffsets'[v])
            => \E t \in Savers : savePc[t] = "saving" /\ lastMetaErr' = "nil")
       /\ \A t \in Savers :
            (/\ lastMetaErr = "error"
             /\ savePc[t] = "locked"
             /\ savePc'[t] # "locked"
             /\ ckPc' = "running")
            => savePc'[t] = "wantSaveLock"]_vars

\* after a failed backend write, a later Save() is at the backend again
\* with the same dirty flags
SaveUnmarksIffSavedWitness ==
    \E t \in Savers :
        /\ savePc[t] = "saving"
        /\ lastMetaErr = "error"
        /\ saveLocal[t].anyDirtyOffset
        /\ saveLocal[t].dirtyOffsets = dirtyOffsets

(***************************************************************************)
(* C4: when the backend reports that no state existed and autoReset is     *)
(* latest, Load() returns for every vBucket seqNo = startSeqNo = endSeqNo  *)
(* = the server's current seqNo, a vbUUID that is the failover log head or *)
(* 0, marks the vBucket dirty exactly when that seqNo is > 0, and          *)
(* anyDirty is true iff some vBucket is dirty.                             *)
(***************************************************************************)
AutoResetToLatest ==
    (ckPc = "loaded" /\ loadInfo.path = "autoReset") =>
        /\ \A v \in VbIds :
              /\ offsets[v].SeqNo = serverSeqNo[v]
              /\ offsets[v].SnapshotMarker.StartSeqNo = serverSeqNo[v]
              /\ offsets[v].SnapshotMarker.EndSeqNo = serverSeqNo[v]
              /\ offsets[v].VbUUID \in {FailoverHead(v), 0}
              /\ dirtyOffsets[v] <=> (serverSeqNo[v] > 0)
        /\ anyDirtyOffset <=> (\E v \in VbIds : dirtyOffsets[v])

(***************************************************************************)
(* C5: after a successful Save() of the ledger snapshot S, a restart on    *)
(* the same bucket whose Load() finds the state existing returns, for      *)
(* every vBucket, the offset of S in all four fields, and no vBucket is    *)
(* dirty.                                                                  *)
(***************************************************************************)
RestartRoundTrip ==
    (/\ ckPc = "loaded"
     /\ loadInfo.exist
     /\ lastSaved.valid
     /\ lastSaved.bucketUUID = bucketUUID)
    => /\ loadInfo.path = "verbatim"
       /\ \A v \in VbIds :
             /\ offsets[v].VbUUID = lastSaved.offsets[v].VbUUID
             /\ offsets[v].SeqNo = lastSaved.offsets[v].SeqNo
             /\ offsets[v].SnapshotMarker.StartSeqNo =
                    lastSaved.offsets[v].SnapshotMarker.StartSeqNo
             /\ offsets[v].SnapshotMarker.EndSeqNo =
                    lastSaved.offsets[v].SnapshotMarker.EndSeqNo
             /\ ~dirtyOffsets[v]
       /\ ~anyDirtyOffset

\* a restart has loaded a saved snapshot whose fields differ from one another
RestartRoundTripWitness ==
    /\ ckPc = "loaded"
    /\ loadInfo.exist
    /\ lastSaved.valid
    /\ lastSaved.bucketUUID = bucketUUID
    /\ \E v \in VbIds :
          /\ offsets[v].VbUUID # 0
          /\ offsets[v].SnapshotMarker.StartSeqNo < offsets[v].SnapshotMarker.EndSeqNo

(***************************************************************************)
(* C6: the first open request of OpenStream(vbID, offset) carries the      *)
(* offset's values (vbUUID, seqNo as start sequence, startSeqNo and        *)
(* endSeqNo as the snapshot window), every request ends at                 *)
(* 0xFFFFFFFFFFFFFFFF, and OpenStream leaves the offset as it was given.   *)
(***************************************************************************)
FirstOpenCarriesOffset ==
    /\ Len(agentCalls) >= 1 =>
          /\ agentCalls[1].vbID = openVb
          /\ agentCalls[1].vbUUID = openArgs.offset.VbUUID
          /\ agentCalls[1].startSeqNo = openArgs.offset.SeqNo
          /\ agentCalls[1].snapStartSeqNo = openArgs.offset.SnapshotMarker.StartSeqNo
          /\ agentCalls[1].snapEndSeqNo = openArgs.offset.SnapshotMarker.EndSeqNo
    /\ \A i \in 1..Len(agentCalls) : agentCalls[i].endSeqNo = StreamEndSeqNo
    /\ offsets[openVb] = openArgs.offset

\* OpenStream has returned after a first request made from an offset whose
\* fields differ from one another
FirstOpenCarriesOffsetWitness ==
    /\ openPc = "done"
    /\ Len(agentCalls) >= 1
    /\ openArgs.offset.VbUUID # 0
    /\ openArgs.offset.SnapshotMarker.StartSeqNo < openArgs.offset.SnapshotMarker.EndSeqNo
    /\ agentCalls[1].snapEndSeqNo = openArgs.offset.SnapshotMarker.EndSeqNo

(***************************************************************************)
(* C7: when the first open attempt completes with Rollback(R) the client   *)
(* opens the same vBucket again with vbUUID 0 and seqNo = startSeqNo =     *)
(* endSeqNo = R, the same observer and the same filter options, using no   *)
(* value of the failed offset; on success or any other error there is no   *)
(* second open.                                                            *)
(***************************************************************************)
RollbackReopens ==
    /\ Len(agentCalls) <= 2
    /\ firstErr.kind = "rollback" =>
          /\ Len(agentCalls) = 2
          /\ agentCalls[2].vbID = openVb
          /\ agentCalls[2].vbUUID = 0
          /\ agentCalls[2].startSeqNo = firstErr.seqNo
          /\ agentCalls[2].snapStartSeqNo = firstErr.seqNo
          /\ agentCalls[2].snapEndSeqNo = firstErr.seqNo
          /\ agentCalls[2].endSeqNo = StreamEndSeqNo
          /\ agentCalls[2].observer = openArgs.observer
          /\ agentCalls[2].options = agentCalls[1].options
    /\ Len(agentCalls) = 2 => firstErr.kind = "rollback"
    /\ (openPc = "done" /\ firstErr.kind # "rollback") => Len(agentCalls) = 1

\* a re-open after Rollback(R), with R different from every sequence number
\* of the failed offset, and a collection filter attached
RollbackReopensWitness ==
    /\ firstErr.kind = "rollback"
    /\ Len(agentCalls) = 2
    /\ firstErr.seqNo # openArgs.offset.SeqNo
    /\ firstErr.seqNo # openArgs.offset.SnapshotMarker.EndSeqNo
    /\ openArgs.offset.VbUUID # 0
    /\ agentCalls[2].options.hasFilter

(***************************************************************************)
(* C8: an OpenStream call whose first open attempt fails with a Rollback   *)
(* error returns the result of the re-open: success when the re-open       *)
(* succeeds, and otherwise the error of the re-open.                       *)
(***************************************************************************)
RollbackReturnsReopenResult ==
    (openPc = "done" /\ firstErr.kind = "rollback") =>
        /\ secondErr.kind # "pending"
        /\ openResult = secondErr
        /\ secondErr.kind = "nil" => openResult.kind = "nil"

\* a rollback was recovered: the re-open succeeded and OpenStream returned nil
RollbackReturnsReopenResultWitness ==
    /\ openPc = "done"
    /\ firstErr.kind = "rollback"
    /\ secondErr.kind = "nil"
    /\ openResult.kind = "nil"

\* C8 as stated: every OpenStream call whose first attempt fails with a
\* Rollback error returns success
RollbackAlwaysRecovered ==
    (openPc = "done" /\ firstErr.kind = "rollback") => openResult.kind = "nil"

(***************************************************************************)
(* C9: after an open that hit Rollback(R) for vBucket v has been           *)
(* recovered, the ledger offset of v is {vbUUID 0, seqNo R, startSeqNo R,  *)
(* endSeqNo R} and v is marked dirty.                                      *)
(***************************************************************************)
RollbackUpdatesLedger ==
    (openPc = "done" /\ firstErr.kind = "rollback" /\ openResult.kind = "nil") =>
        /\ offsets[openVb] = NewOffset(0, firstErr.seqNo, firstErr.seqNo, firstErr.seqNo)
        /\ dirtyOffsets[openVb]
        /\ anyDirtyOffset

(***************************************************************************)
(* C10: Start() returns only once a shutdown signal (stop request, OS      *)
(* termination signal, health-check failure) has arrived, and honors       *)
(* exactly one signal: the first to arrive when Start is blocked in the    *)
(* select or only one is waiting, any one of those waiting otherwise; the  *)
(* other signals stay in their channels. closeWithCancel is true when      *)
(* Start has returned iff the honored signal was the OS signal, and        *)
(* Close() passes that value to stream.Close.                              *)
(***************************************************************************)
StartHonorsOneSignal ==
    /\ [](startPc \in {"returned", "closed"} =>
            /\ honored \in pendingAtSelect
            /\ pendingAtSelect \subseteq {arrivals[i] : i \in 1..Len(arrivals)}
            /\ Cardinality(pendingAtSelect) = 1 => honored = arrivals[1]
            /\ closeWithCancel <=> (honored = "cancel"))
    /\ [](startPc \in {"new", "opened", "select", "blocked"} =>
            (honored = "none" /\ ~closeWithCancel))
    /\ [](streamCloseArg.called => streamCloseArg.closeWithCancel = closeWithCancel)
    /\ [][(startPc # "returned" /\ startPc' = "returned") =>
            /\ Len(arrivals') >= 1
            /\ \A k \in Signals \ {honored'} : shutdownCh'[k] = shutdownCh[k]]_vars

\* Close has passed closeWithCancel = true after Start honored an OS signal
\* that was the only one ready, while a later signal stays in its channel
StartHonorsOneSignalWitness ==
    /\ startPc = "closed"
    /\ honored = "cancel"
    /\ pendingAtSelect = {"cancel"}
    /\ Len(arrivals) >= 2
    /\ arrivals[1] = "cancel"
    /\ streamCloseArg.called
    /\ streamCloseArg.closeWithCancel

\* C10 as stated: the signal Start honors is the first one that arrived
StartHonorsFirstSignal ==
    startPc \in {"returned", "closed"} =>
        /\ honored = arrivals[1]
        /\ closeWithCancel <=> (honored = "cancel")
        /\ streamCloseArg.called => streamCloseArg.closeWithCancel = closeWithCancel

\* position of the first occurrence of call c in the log of Close, 0 if none
CallPos(c) ==
    IF \E i \in 1..Len(closeLog) : closeLog[i] = c
    THEN CHOOSE i \in 1..Len(closeLog) :
            closeLog[i] = c /\ \A j \in 1..(i - 1) : closeLog[j] # c
    ELSE 0

Before(c, d) == CallPos(c) > 0 /\ CallPos(d) > 0 /\ CallPos(c) < CallPos(d)

HealthShutdown == startPc = "closed" /\ honored = "health"

RebalancesSerial ==
    /\ rebalancing + spawned <= 1
    /\ rebalanceCalls + spawned = delivered
    /\ delivered <= busPublished

\* a second event was published while the first Rebalance was running, and
\* both have been processed, one after the other
RebalancesSerialWitness ==
    /\ delivered = 2
    /\ rebalanceCalls = 2
    /\ rebalancing = 1
    /\ \E p \in Publishers : pubPc[p] = "handler"

\* the service is in the result with an endpoint that has no error and state OK
HasHealthyEndpoint(service) ==
    /\ service \in pingInput.services.present
    /\ LET results == IF service = MemdService THEN pingInput.services.memd
                      ELSE pingInput.services.mgmt
       IN  \E i \in 1..Len(results) :
              results[i].Error = "nil" /\ results[i].State = PingStateOK

\* the ping's completion reached Ping() before it returned
PingCompleted == pingCb = "done"

(***************************************************************************)
(* C13: Ping() returns no error if and only if the ping completed without  *)
(* error and the memcached service and the management service each report  *)
(* at least one endpoint with no error and state OK; in every other case   *)
(* it returns an error.                                                    *)
(***************************************************************************)
PingHealthyIff ==
    pingPc = "returned" =>
        /\ pingReturn # "none"
        /\ pingReturn = "nil" <=>
              /\ PingCompleted
              /\ pingInput.err = "nil"
              /\ HasHealthyEndpoint(MemdService)
              /\ HasHealthyEndpoint(MgmtService)

\* Ping() returned nil on a result whose memcached service has an unhealthy
\* endpoint before a healthy one
PingHealthyIffWitness ==
    /\ pingPc = "returned"
    /\ pingReturn = "nil"
    /\ Len(pingInput.services.memd) = 2
    /\ pingInput.services.memd[1].Error = "err"
    /\ HasHealthyEndpoint(MgmtService)

(***************************************************************************)
(* C14: the documents one Save() hands to the metadata backend are a       *)
(* consistent cut: for every vBucket the document equals the ledger offset *)
(* at the instant of the snapshot, and no offset update of a DCP event     *)
(* comes between the snapshot and the return of the backend.               *)
(***************************************************************************)
SaveConsistentCut ==
    \A t \in Savers :
        /\ savePc[t] \in {"wantSaveLock", "saving"} =>
              /\ saveLocal[t].offsets = offsets
              /\ saveLocal[t].dirtyOffsets = dirtyOffsets
        /\ savePc[t] = "saving" =>
              /\ DOMAIN saveLocal[t].dump = VbIds
              /\ \A v \in VbIds :
                    saveLocal[t].dump[v] = CheckpointDocument(offsets[v], bucketUUID)

\* a Save() is in the backend call with a dump of two vBuckets that both
\* advanced, one of them inside an open snapshot window
SaveConsistentCutWitness ==
    \E t \in Savers :
        /\ savePc[t] = "saving"
        /\ \A v \in VbIds : saveLocal[t].dump[v].Checkpoint.SeqNo > 0
        /\ \E v \in VbIds : saveLocal[t].dirtyOffsets[v]

\* the callers inside Save(), between LockOffsets and the return
InSave == {t \in Savers : savePc[t] \in {"locked", "wantSaveLock", "saving"}}

(***************************************************************************)
(* C15: concurrent Save() calls (scheduler tick, Commit(), the save of     *)
(* Close()) serialize: at most one call of the backend's Save is in        *)
(* progress, and the dirty check, the backend write and                    *)
(* UnmarkDirtyOffsets of one Save() are not interleaved with another's.    *)
(***************************************************************************)
SavesSerialize ==
    /\ [](/\ Cardinality(InSave) <= 1
          /\ Cardinality({t \in Savers : savePc[t] = "saving"}) <= 1
          /\ \A t \in Savers :
                /\ t \in InSave <=> offsetsLock = t
                /\ savePc[t] = "saving" <=> saveLock = t)
    /\ [][\A t \in Savers :
            (t \in InSave /\ savePc'[t] = savePc[t]) =>
                /\ dirtyOffsets' = dirtyOffsets
                /\ anyDirtyOffset' = anyDirtyOffset
                /\ metadataDocs' = metadataDocs]_vars

\* a Save() is in the backend call after another caller's Save() wrote and
\* returned, and the ledger is dirty again
SavesSerializeWitness ==
    /\ \E t \in Savers : savePc[t] = "saving"
    /\ lastReturn.outcome = "nil"
    /\ lastSaved.valid
    /\ lastSaved.offsets # offsets

\* the values of an open request are ordered as an offset's are
ValidRequest(c) ==
    /\ c.snapStartSeqNo <= c.startSeqNo
    /\ c.startSeqNo <= c.snapEndSeqNo
    /\ c.endSeqNo = StreamEndSeqNo

(***************************************************************************)
(* C16: startSeqNo <= seqNo <= endSeqNo holds for every offset produced by *)
(* Load(), on the auto-reset path and, the persisted documents satisfying  *)
(* it, on the verbatim path, and for the values of every open request,     *)
(* the rollback re-open included.                                          *)
(***************************************************************************)
OffsetsOrdered ==
    /\ ckPc = "loaded" => \A v \in VbIds : ValidOffset(offsets[v])
    /\ \A i \in 1..Len(agentCalls) : ValidRequest(agentCalls[i])

\* after an auto-reset load to a server seqNo above 0 the stream was opened
\* from the loaded offset, rolled back and re-opened
OffsetsOrderedWitness ==
    /\ ckPc = "loaded"
    /\ loadInfo.path = "autoReset"
    /\ Len(agentCalls) = 2
    /\ agentCalls[1].startSeqNo > 0
    /\ agentCalls[2].startSeqNo < agentCalls[1].startSeqNo

\* the chunk sizes ChunkSlice returns for n vBuckets and m members
ChunkSizes(n, m) ==
    LET r == ChunkSlice(VbIdSeq(n), m)
    IN  IF r.panic THEN <<>> ELSE [i \in 1..Len(r.chunks) |-> Len(r.chunks[i])]

(***************************************************************************)
(* C17: with maxChunkSize = ((N-1)/M)+1 and numFullChunks =                *)
(* M - (maxChunkSize*M - N), ChunkSlice gives members 1..numFullChunks     *)
(* maxChunkSize vBuckets each and every later member maxChunkSize-1;       *)
(* N=1024, M=1 gives one chunk of 1024 and N=1024, M=3 gives 342, 341,     *)
(* 341 as contiguous ranges.                                               *)
(***************************************************************************)
ChunkSizesByRank ==
    /\ chunkPc = "done" =>
          /\ ~result.panic
          /\ Len(result.chunks) = chunks
          /\ \A i \in 1..chunks :
                Len(result.chunks[i]) =
                    IF i <= chunks - (((GoDiv(Len(slice) - 1, chunks) + 1) * chunks) - Len(slice))
                    THEN GoDiv(Len(slice) - 1, chunks) + 1
                    ELSE GoDiv(Len(slice) - 1, chunks)
    /\ ChunkSizes(1024, 1) = <<1024>>
    /\ ChunkSizes(1024, 3) = <<342, 341, 341>>
    /\ \A ch \in {ChunkSlice(VbIdSeq(1024), 3).chunks} :
          /\ \A i \in 1..3 : IsContiguous(ch[i])
          /\ Concat(ch) = VbIdSeq(1024)

\* a call has returned full chunks followed by chunks one shorter
ChunkSizesByRankWitness ==
    /\ chunkPc = "done"
    /\ ~result.panic
    /\ chunks >= 3
    /\ Len(result.chunks[1]) = Len(result.chunks[2])
    /\ Len(result.chunks[2]) = Len(result.chunks[chunks]) + 1
    /\ Len(result.chunks[chunks]) >= 1

(***************************************************************************)
(* C18: Save() acquires the ledger lock first, takes the ledger snapshot,  *)
(* returns early if nothing is dirty, and only then acquires the save      *)
(* lock, writes through the backend and on success calls                   *)
(* UnmarkDirtyOffsets, in exactly that order.                              *)
(***************************************************************************)
SaveOrder ==
    /\ [](\A t \in Savers :
            /\ saveLock = t => offsetsLock = t
            /\ savePc[t] = "saving" => saveLock = t
            /\ savePc[t] \in {"wantSaveLock", "saving"} =>
                  /\ saveLocal[t].anyDirtyOffset
                  /\ saveLocal[t].offsets = offsets
            /\ savePc[t] \in {"idle", "locked", "wantSaveLock"} => saveLock # t)
    /\ [][\A t \in Savers :
            /\ (offsetsLock # t /\ offsetsLock' = t) =>
                  (savePc[t] = "idle" /\ savePc'[t] = "locked" /\ saveLock' # t)
            /\ (savePc[t] = "locked" /\ savePc'[t] = "idle" /\ ckPc' = "running") =>
                  (~anyDirtyOffset /\ lastReturn'.outcome = "skipped"
                   /\ offsetsLock' = "none" /\ saveLock' = saveLock)
            /\ (saveLock # t /\ saveLock' = t) =>
                  (savePc[t] = "wantSaveLock" /\ savePc'[t] = "saving")
            /\ (metadataDocs' # metadataDocs /\ savePc[t] # savePc'[t]) =>
                  (savePc[t] = "saving" /\ saveLock = t /\ offsetsLock = t)
            /\ (anyDirtyOffset /\ ~anyDirtyOffset' /\ savePc[t] # savePc'[t]
                 /\ ckPc' = "running") =>
                  (savePc[t] = "saving" /\ lastReturn'.outcome = "nil"
                   /\ saveLock' = "none" /\ offsetsLock' = "none")]_vars

\* a Save() holds the ledger lock and a dirty snapshot and has not yet
\* acquired the save lock
SaveOrderWitness ==
    \E t \in Savers :
        /\ savePc[t] = "wantSaveLock"
        /\ offsetsLock = t
        /\ saveLock = "none"
        /\ saveLocal[t].anyDirtyOffset
        /\ lastReturn.outcome = "skipped"

\* C18 as stated: the save lock is acquired before the ledger lock
SaveLockBeforeLedgerLock ==
    \A t \in Savers : offsetsLock = t => saveLock = t

\* the requests of this OpenStream call that the agent accepted
AcceptedRequests ==
    IF firstErr = SubmitErr THEN 0
    ELSE IF secondErr = SubmitErr THEN 1
    ELSE Len(agentCalls)

(***************************************************************************)
(* C19: every completion of a DCP open request, of the first attempt and   *)
(* of the rollback re-open, delivers the failover log to                   *)
(* observer.SetFailoverLogs(vbID, ...) before OpenStream returns; after a  *)
(* recovered rollback the observer's cached failover log for the vBucket   *)
(* is the one delivered by the re-open, not the one of the failed attempt. *)
(***************************************************************************)
FailoverLogsDelivered ==
    /\ Len(openCompletions) >= 1 =>
          observerFailoverLogs[openVb] = openCompletions[Len(openCompletions)].logs
    /\ \A v \in VbIds \ {openVb} : observerFailoverLogs[v] = <<>>
    /\ openPc = "done" => Len(openCompletions) = AcceptedRequests
    /\ (openPc = "done" /\ IsRollbackErr(firstErr) /\ openResult = NilErr) =>
          /\ Len(openCompletions) = 2
          /\ observerFailoverLogs[openVb] = openCompletions[2].logs

\* OpenStream returned nil after a rollback whose failed attempt and re-open
\* delivered different failover logs
FailoverLogsDeliveredWitness ==
    /\ openPc = "done"
    /\ IsRollbackErr(firstErr)
    /\ openResult = NilErr
    /\ Len(openCompletions) = 2
    /\ openCompletions[1].logs # openCompletions[2].logs
    /\ openCompletions[2].logs # <<>>

\* the ids a request's filter holds, as a set
FilterIds(c) == {c.options.CollectionIDs[k] : k \in 1..Len(c.options.CollectionIDs)}

(***************************************************************************)
(* C20: OpenStream attaches a collection filter if and only if a           *)
(* collection-ID map was supplied and the DCP session reports collections  *)
(* support; the filter then holds exactly the supplied collection IDs,     *)
(* each once; otherwise the request carries no filter. A rollback re-open  *)
(* uses the same filter as the failed attempt.                             *)
(***************************************************************************)
CollectionFilter ==
    /\ \A i \in 1..Len(agentCalls) :
          /\ agentCalls[i].options.hasFilter <=>
                (~openArgs.collectionIDs.isNil /\ hasCollectionsSupport)
          /\ agentCalls[i].options.hasFilter =>
                /\ FilterIds(agentCalls[i]) = openArgs.collectionIDs.ids
                /\ Len(agentCalls[i].options.CollectionIDs) =
                      Cardinality(openArgs.collectionIDs.ids)
          /\ ~agentCalls[i].options.hasFilter =>
                agentCalls[i].options.CollectionIDs = <<>>
    /\ Len(agentCalls) = 2 => agentCalls[2].options = agentCalls[1].options

\* a map of two collections was supplied to a session without collections
\* support: the request and its rollback re-open carry no filter
CollectionFilterWitness ==
    /\ Len(agentCalls) = 2
    /\ Cardinality(openArgs.collectionIDs.ids) = 2
    /\ ~hasCollectionsSupport
    /\ ~agentCalls[1].options.hasFilter
    /\ ~agentCalls[2].options.hasFilter

(***************************************************************************)
(* C21: with the auto type StartSchedule() makes Save() fire on the        *)
(* interval ticks, and after StopSchedule() has returned no further        *)
(* scheduled Save() is started, for any interleaving of StartSchedule(),   *)
(* the scheduler task and StopSchedule(); with another type neither call   *)
(* has any effect.                                                         *)
(***************************************************************************)
NoScheduledSaveAfterStop ==
    /\ savesAfterStop = 0
    /\ stopCalls > 0 => ~tickerOn
    /\ ~ScheduleEnabled(schedType) =>
          (schedTask = "none" /\ schedule = "nil" /\ scheduledSaves = 0)

\* the offset a Load() would rebuild for vBucket v from the backend as it is
PersistedOffset(v) ==
    OffsetFromDoc(MetadataLoad(metadataDocs, VbIds, bucketUUID).dump[v])

CloseRunsToCompletion ==
    startPc = "closed" =>
        /\ CallPos("stream.Close") > 0
        /\ CallPos("client.DcpClose") > 0
        /\ CallPos("client.Close") > 0
        /\ closeLog[Len(closeLog)] = "closed"

(***************************************************************************)
(* C24: Start() signals readiness on the WaitUntilReady channel exactly    *)
(* once and without blocking, and only after stream.Open() has returned,   *)
(* the membership-changed subscription is registered and the health check  *)
(* (if enabled) is started; a Start() in which one of these steps faults   *)
(* emits no readiness signal.                                              *)
(***************************************************************************)
ReadyOnceAfterSetup ==
    /\ ReadySends(startLog) <= 1
    /\ readyCh <= ReadySends(startLog)
    /\ startPc = "opened" => readyCh < ChanCap
    /\ startPc \in {"select", "blocked", "returned", "closed"} => ReadySends(startLog) = 1
    /\ ReadySends(startLog) = 1 =>
          /\ 0 < StepPos(startLog, "stream.Open")
          /\ StepPos(startLog, "stream.Open") < StepPos(startLog, "bus.SubscribeAsync")
          /\ StepPos(startLog, "bus.SubscribeAsync") < StepPos(startLog, "readyCh<-")
          /\ ~lifeConfig.healthCheckDisabled =>
                /\ 0 < StepPos(startLog, "healthCheck.Start")
                /\ StepPos(startLog, "healthCheck.Start") < StepPos(startLog, "readyCh<-")
    /\ Panicked(startLog) => (startPc = "panicked" /\ ReadySends(startLog) = 0)
    /\ startFault = "none" => ~Panicked(startLog)

\* a Start() with the health check enabled has sent its readiness signal and
\* the application has received it
ReadyOnceAfterSetupWitness ==
    /\ startPc \in {"select", "blocked"}
    /\ ~lifeConfig.healthCheckDisabled
    /\ ReadySends(startLog) = 1
    /\ readyCh = 0

(***************************************************************************)
(* C25: one OpenStream call issues at most two DCP open requests: the      *)
(* rollback re-open is attempted at most once, the error of a failed       *)
(* re-open (another Rollback or any other error) is returned without a     *)
(* further retry, and OpenStream terminates when the server completes      *)
(* each request.                                                           *)
(***************************************************************************)
OpenStreamAtMostTwoRequests ==
    /\ [](/\ Len(agentCalls) <= 2
          /\ Len(agentCalls) = 2 => IsRollbackErr(firstErr)
          /\ (openPc = "done" /\ Len(agentCalls) = 2) => openResult = secondErr)
    /\ [][openPc = "recv2" =>
             (openPc' = "done" /\ agentCalls' = agentCalls /\ openResult' = openCh)]_vars
    /\ <>(openPc = "done")

\* the re-open failed with a second Rollback error and OpenStream returned
\* it after two requests
OpenStreamAtMostTwoRequestsWitness ==
    /\ openPc = "done"
    /\ Len(agentCalls) = 2
    /\ Len(openCompletions) = 2
    /\ IsRollbackErr(secondErr)
    /\ openResult = secondErr

(***************************************************************************)
(* C26: GetVBucketSeqNos() returns either an error or a map holding the    *)
(* current seqNo reported by every queried node, so that the auto-reset    *)
(* path of Load() never initialises an offset to seqNo 0, left non-dirty,  *)
(* for a vBucket whose server seqNo is > 0.                                *)
(***************************************************************************)
SeqNosOfEveryNode ==
    (ckPc = "loaded" /\ loadInfo.path = "autoReset") =>
        /\ DOMAIN loadInfo.seqNoMap = VbIds
        /\ \A v \in VbIds :
              /\ MapGet(loadInfo.seqNoMap, v) = serverSeqNo[v]
              /\ serverSeqNo[v] > 0 => ~(offsets[v].SeqNo = 0 /\ ~dirtyOffsets[v])

(***************************************************************************)
(* C27: a synchronous adaptor over an async cluster operation yields       *)
(* exactly one outcome and leaves no task blocked: for every interleaving  *)
(* of the completion callback with the waiter, the waiter giving up on a   *)
(* deadline before the callback runs included, the callback's send of its  *)
(* result eventually completes and the callback returns.                   *)
(***************************************************************************)
CallbackSendCompletes ==
    /\ [](pingPc = "returned" => pingReturn # "none")
    /\ [](pingCb = "sending" => <>(pingCb = "done"))

====
